---- MODULE Spec2Model ----
(***************************************************************************)
(* repodiet: incremental git history scanner and its SQLite store.         *)
(*                                                                         *)
(* The repository is a linear history of commits.  Every commit has a root *)
(* tree with an optional file "a" (blob "x" or "y") and an optional        *)
(* directory "d" holding a file "f" (blob "x").  Some commits may fail to  *)
(* decode.  Path bytes are sequences of one-character strings, so that     *)
(* joining with "/" and splitting on "/" are real operations.              *)
(*                                                                         *)
(* GitScanner::scan is a process that moves through its phases; the store  *)
(* is the committed database plus the view of an open transaction.  A scan *)
(* can fail at every store call whose error it propagates and the process  *)
(* can be killed between any two steps.                                    *)
(*                                                                         *)
(* Spec is the scanner on a repository.  StoreSpec is a caller that saves  *)
(* blob records into a Database and loads the tree; SchemaSpec is opening  *)
(* a store file that is new or was written under some schema version.      *)
(***************************************************************************)
EXTENDS Integers, Sequences, FiniteSets, TLC

\* ------------------------------------------------------------------ bounds
MaxCommits == 2

MaxUndecodable == 1

\* ------------------------------------------------------- repository inputs
None == "none"
\* an absent optional value; Some(v) is <<v>>
NoTx == <<>>
Absent == "-"

BlobOids == {"x", "y"}

\* sizes recorded from pack indexes (oid -> compressed size)
packed == ("x" :> 2)

\* sizes of loose object files (objects/<hex[0..2]>/<hex[2..]>)
loose == ("y" :> 3)

\* root tree oids: <<"root", blob at "a", blob at "d/f">>; sub tree oids:
\* <<"sub", blob at "f">>.  An oid is the content it addresses.
\* the blobs the histories place at "d/f"
DirBlobOids == {"x"}

RootTrees == {<<"root", s, t>> : s \in BlobOids \cup {Absent}, t \in DirBlobOids \cup {Absent}}

\* ------------------------------------------------------------ pack.rs
\* size_of without the fall back to the loose object file
size_of_packed_only(oid) ==
    IF oid \in DOMAIN packed THEN packed[oid] ELSE 0

\* PackSizeIndex::size_of
size_of(oid) ==
    IF oid \in DOMAIN packed THEN packed[oid]
    ELSE IF oid \in DOMAIN loose THEN loose[oid]
    ELSE 0

\* root trees of a repository with a damaged object: <<"wide", blob at "a",
\* tree at "d", blob at "g">>; the tree at "d" is <<"sub", blob at "f">>, or
\* <<"bad", blob at "f">> when the object that holds it cannot be decoded,
\* or <<Absent>>.
\* The blob "z" is neither in a pack nor a loose file.
WideTrees ==
    {<<"wide", s, t, u>> : s \in {Absent, "x", "z"},
                           t \in {<<Absent>>, <<"sub", "x">>, <<"bad", "x">>},
                           u \in {Absent, "y"}}

\* ------------------------------------------------------------ object db
\* a decoder that does not notice the damage
find_tree_is_err_never(tree_oid) == FALSE

\* odb.find_tree(tree_oid) is Err
find_tree_is_err(tree_oid) == tree_oid[1] = "bad"

\* decoded entries of a tree object, sorted by filename
find_tree(tree_oid) ==
    IF tree_oid[1] = "root"
    THEN (IF tree_oid[2] = Absent THEN <<>>
          ELSE <<[filename |-> <<"a">>, mode |-> "blob", oid |-> tree_oid[2]]>>)
         \o
         (IF tree_oid[3] = Absent THEN <<>>
          ELSE <<[filename |-> <<"d">>, mode |-> "tree", oid |-> <<"sub", tree_oid[3]>>]>>)
    ELSE IF tree_oid[1] = "wide"
    THEN (IF tree_oid[2] = Absent THEN <<>>
          ELSE <<[filename |-> <<"a">>, mode |-> "blob", oid |-> tree_oid[2]]>>)
         \o
         (IF tree_oid[3] = <<Absent>> THEN <<>>
          ELSE <<[filename |-> <<"d">>, mode |-> "tree", oid |-> tree_oid[3]]>>)
         \o
         (IF tree_oid[4] = Absent THEN <<>>
          ELSE <<[filename |-> <<"g">>, mode |-> "blob", oid |-> tree_oid[4]]>>)
    ELSE <<[filename |-> <<"f">>, mode |-> "blob", oid |-> tree_oid[2]]>>

\* author signature of a commit (name, seconds)
CommitAuthor(c) == IF c % 2 = 1 THEN "alice" ELSE "bob"

CommitSeconds(c) == 100 + c

\* ------------------------------------------------------------ interner.rs
InternerHas(tbl, bytes) == \E i \in 1..Len(tbl) : tbl[i] = bytes

\* intern that hands out a fresh id without looking the bytes up
intern_id_fresh(tbl, bytes) == Len(tbl)

\* PathInterner::intern, the returned id (zero-based index)
intern_id(tbl, bytes) ==
    IF InternerHas(tbl, bytes)
    THEN (CHOOSE i \in 1..Len(tbl) : tbl[i] = bytes) - 1
    ELSE Len(tbl)

\* PathInterner::intern, the string table afterwards
intern(tbl, bytes) ==
    IF InternerHas(tbl, bytes) THEN tbl ELSE Append(tbl, bytes)

get_bytes(tbl, id) == tbl[id + 1]

\* lossy UTF-8 decoding; the model's names are ASCII
get_str(tbl, id) == get_bytes(tbl, id)

\* ------------------------------------------------------------ tree.rs
\* record_blob without the `current_size > 0` test of its second branch
record_blob_always(out, oid, path_id, cumulative_size, current_size, commit, is_new_blob) ==
    [blobs    |-> Append(out.blobs,
                     [oid |-> oid, path_id |-> path_id,
                      cumulative_size |-> IF is_new_blob THEN cumulative_size ELSE 0,
                      current_size |-> current_size]),
     metadata |-> IF is_new_blob
                  THEN Append(out.metadata,
                         [oid |-> oid, size |-> cumulative_size, path_id |-> path_id,
                          author |-> commit.author, timestamp |-> commit.timestamp])
                  ELSE out.metadata]

\* DeltaBuilder::record_blob
record_blob(out, oid, path_id, cumulative_size, current_size, commit, is_new_blob) ==
    IF is_new_blob
    THEN [blobs    |-> Append(out.blobs,
                         [oid |-> oid, path_id |-> path_id,
                          cumulative_size |-> cumulative_size,
                          current_size |-> current_size]),
          metadata |-> Append(out.metadata,
                         [oid |-> oid, size |-> cumulative_size, path_id |-> path_id,
                          author |-> commit.author, timestamp |-> commit.timestamp])]
    ELSE IF current_size > 0
    THEN [blobs    |-> Append(out.blobs,
                         [oid |-> oid, path_id |-> path_id,
                          cumulative_size |-> 0,
                          current_size |-> current_size]),
          metadata |-> out.metadata]
    ELSE out

\* the lookup without the comparison of the oid: the size HEAD has at the path
HeadCurrentSizeOfPath(head_snapshot, path_id, oid) ==
    IF path_id \in DOMAIN head_snapshot.blobs_by_path
    THEN head_snapshot.blobs_by_path[path_id][2]
    ELSE 0

\* current_size lookup in TreeScanCtx::handle_blob
HeadCurrentSize(head_snapshot, path_id, oid) ==
    IF path_id \in DOMAIN head_snapshot.blobs_by_path
       /\ head_snapshot.blobs_by_path[path_id][1] = oid
    THEN head_snapshot.blobs_by_path[path_id][2]
    ELSE 0

\* handle_blob without the seen_path_blobs test
handle_blob_every_time(ctx, oid, commit) ==
    LET path_id == intern_id(ctx.interner, ctx.path)
        c1 == [ctx EXCEPT !.interner = intern(ctx.interner, ctx.path)]
        is_new_blob == oid \notin c1.seen_blobs
        size == size_of(oid)
        current_size == HeadCurrentSize(c1.head, path_id, oid)
    IN  [c1 EXCEPT !.seen_path_blobs = @ \cup {<<path_id, oid>>},
                   !.seen_blobs = @ \cup {oid},
                   !.out = record_blob(@, oid, path_id, size, current_size,
                                       commit, is_new_blob)]

\* TreeScanCtx::handle_blob; ctx.path is the shared path buffer
handle_blob(ctx, oid, commit) ==
    LET path_id == intern_id(ctx.interner, ctx.path)
        c1 == [ctx EXCEPT !.interner = intern(ctx.interner, ctx.path)]
    IN  IF <<path_id, oid>> \in c1.seen_path_blobs
        THEN c1
        ELSE LET is_new_blob == oid \notin c1.seen_blobs
                 size == size_of(oid)
                 current_size == HeadCurrentSize(c1.head, path_id, oid)
             IN  [c1 EXCEPT !.seen_path_blobs = @ \cup {<<path_id, oid>>},
                            !.seen_blobs = @ \cup {oid},
                            !.out = record_blob(@, oid, path_id, size, current_size,
                                                commit, is_new_blob)]

RECURSIVE scan_entries(_, _, _, _, _)
RECURSIVE scan_tree(_, _, _)

\* TreeScanCtx::scan_tree
scan_tree(ctx, tree_oid, commit) ==
    LET path_id == intern_id(ctx.interner, ctx.path)
        c1 == [ctx EXCEPT !.interner = intern(ctx.interner, ctx.path)]
        c2 == [c1 EXCEPT !.seen_trees = @ \cup {<<tree_oid, path_id>>}]
    IN  IF <<tree_oid, path_id>> \in c1.seen_trees
        THEN c1
        ELSE IF find_tree_is_err(tree_oid)
        THEN c2
        ELSE scan_entries(c2, find_tree(tree_oid), 1, Len(c1.path), commit)

RECURSIVE scan_entries_unrestored(_, _, _, _, _)

\* the entry loop without path.truncate(base_len)
scan_entries_unrestored(ctx, entries, i, base_len, commit) ==
    IF i > Len(entries)
    THEN ctx
    ELSE LET entry == entries[i]
             pushed == [ctx EXCEPT !.path =
                           (IF @ # <<>> THEN Append(@, "/") ELSE @) \o entry.filename]
             visited == IF entry.mode = "blob" THEN handle_blob(pushed, entry.oid, commit)
                        ELSE IF entry.mode = "tree" THEN scan_tree(pushed, entry.oid, commit)
                        ELSE pushed
         IN  scan_entries_unrestored(visited, entries, i + 1, base_len, commit)

\* the entry loop of scan_tree, from entry i on
scan_entries(ctx, entries, i, base_len, commit) ==
    IF i > Len(entries)
    THEN ctx
    ELSE LET entry == entries[i]
             pushed == [ctx EXCEPT !.path =
                           (IF @ # <<>> THEN Append(@, "/") ELSE @) \o entry.filename]
             visited == IF entry.mode = "blob" THEN handle_blob(pushed, entry.oid, commit)
                        ELSE IF entry.mode = "tree" THEN scan_tree(pushed, entry.oid, commit)
                        ELSE pushed
             restored == [visited EXCEPT !.path = SubSeq(@, 1, base_len)]
         IN  scan_entries(restored, entries, i + 1, base_len, commit)

\* TreeScanCtx::scan_commit
scan_commit(ctx, commit) ==
    scan_tree([ctx EXCEPT !.path = <<>>], commit.tree, commit)

\* TreeScanCtx::new that does not seed seen_blobs from the store
NewCtxUnseeded(head_snapshot, interner, initial_seen_blobs) ==
    [head |-> head_snapshot, interner |-> interner, path |-> <<>>,
     seen_trees |-> {}, seen_blobs |-> {}, seen_path_blobs |-> {},
     out |-> [blobs |-> <<>>, metadata |-> <<>>]]

\* TreeScanCtx::new
NewCtx(head_snapshot, interner, initial_seen_blobs) ==
    [head |-> head_snapshot, interner |-> interner, path |-> <<>>,
     seen_trees |-> {}, seen_blobs |-> initial_seen_blobs, seen_path_blobs |-> {},
     out |-> [blobs |-> <<>>, metadata |-> <<>>]]

\* ------------------------------------------------------------ scanner/mod.rs
RECURSIVE Traverse(_, _)

\* breadth-first traversal of a tree: the recorder's records, each with its
\* full slash-joined path
Traverse(queue, records) ==
    IF queue = <<>>
    THEN records
    ELSE LET tree_oid == queue[1][1]
             prefix == queue[1][2]
             entries == find_tree(tree_oid)
             Full(e) == (IF prefix # <<>> THEN Append(prefix, "/") ELSE prefix) \o e.filename
             recs == [k \in 1..Len(entries) |->
                        [filepath |-> Full(entries[k]), mode |-> entries[k].mode,
                         oid |-> entries[k].oid]]
             subs == SelectSeq(recs, LAMBDA r : r.mode = "tree")
         IN  Traverse(Tail(queue) \o [k \in 1..Len(subs) |-> <<subs[k].oid, subs[k].filepath>>],
                      records \o recs)

RECURSIVE SnapshotFold(_, _, _, _)

\* the loop of build_head_snapshot over the recorder's records
SnapshotFold(records, k, interner, blobs_by_path) ==
    IF k > Len(records)
    THEN [interner |-> interner, blobs_by_path |-> blobs_by_path]
    ELSE IF records[k].mode = "blob"
    THEN LET path_id == intern_id(interner, records[k].filepath)
             entry == <<records[k].oid, size_of(records[k].oid)>>
         IN  SnapshotFold(records, k + 1, intern(interner, records[k].filepath),
                          [p \in DOMAIN blobs_by_path \cup {path_id} |->
                             IF p = path_id THEN entry ELSE blobs_by_path[p]])
    ELSE SnapshotFold(records, k + 1, interner, blobs_by_path)

\* GitScanner::build_head_snapshot; returns the snapshot and the interner
build_head_snapshot(head_tree, head_hex) ==
    LET r == SnapshotFold(Traverse(<<<<head_tree, <<>>>>>>, <<>>), 1, <<>>, <<>>)
    IN  [snapshot |-> [head_oid_hex |-> head_hex, blobs_by_path |-> r.blobs_by_path],
         interner |-> r.interner]

Reverse(s) == [i \in 1..Len(s) |-> s[Len(s) - i + 1]]

\* collect_commits without the reverse: newest first
collect_commits_newest_first(head_commit) ==
    [i \in 1..head_commit |-> head_commit - i + 1]

\* GitScanner::collect_commits on a linear history: the ancestor walk yields
\* head, head-1, ..., 1; the list is reversed to oldest first
collect_commits(head_commit) ==
    Reverse([i \in 1..head_commit |-> head_commit - i + 1])

\* a plan that ignores the scanned set
plan_commits_all(all_commits, scanned) == all_commits

\* GitScanner::plan_commits
plan_commits(all_commits, scanned) ==
    SelectSeq(all_commits, LAMBDA oid : oid \notin scanned)

\* ------------------------------------------------------------ model/tree.rs
\* TreeNode::new
NewNode(name) ==
    [name |-> name, cumulative_size |-> 0, current_size |-> 0, blob_count |-> 0,
     children |-> <<>>, has_deleted_descendants |-> FALSE, deleted_size |-> 0]

RECURSIVE add_path_with_sizes(_, _, _, _, _)

\* TreeNode::add_path_with_sizes
add_path_with_sizes(node, path_parts, cumulative, current, count) ==
    IF path_parts = <<>>
    THEN node
    ELSE LET child_name == path_parts[1]
             child == IF child_name \in DOMAIN node.children
                      THEN node.children[child_name]
                      ELSE NewNode(child_name)
             child2 == IF Len(path_parts) = 1
                       THEN [child EXCEPT !.cumulative_size = @ + cumulative,
                                          !.current_size = @ + current,
                                          !.blob_count = @ + count]
                       ELSE add_path_with_sizes(child, Tail(path_parts),
                                                cumulative, current, count)
         IN  [node EXCEPT !.children =
                 [k \in DOMAIN node.children \cup {child_name} |->
                    IF k = child_name THEN child2 ELSE node.children[k]]]

RECURSIVE SumOver(_, _)

\* sum of val[e] over the elements e of a finite set S
SumOver(S, val) ==
    IF S = {} THEN 0
    ELSE LET e == CHOOSE e \in S : TRUE
         IN  val[e] + SumOver(S \ {e}, val)

RECURSIVE compute_totals_shrunk(_)

\* compute_totals that takes every leaf with fewer bytes in HEAD than in
\* history as deleted
compute_totals_shrunk(node) ==
    IF DOMAIN node.children = {}
    THEN LET is_deleted == node.current_size < node.cumulative_size
         IN  [node EXCEPT !.has_deleted_descendants = is_deleted,
                          !.deleted_size = IF is_deleted THEN node.cumulative_size ELSE 0]
    ELSE LET kids == [k \in DOMAIN node.children |->
                         compute_totals_shrunk(node.children[k])]
             K == DOMAIN kids
         IN  [node EXCEPT
                !.children = kids,
                !.cumulative_size = @ + SumOver(K, [k \in K |-> kids[k].cumulative_size]),
                !.current_size = @ + SumOver(K, [k \in K |-> kids[k].current_size]),
                !.blob_count = @ + SumOver(K, [k \in K |-> kids[k].blob_count]),
                !.deleted_size = @ + SumOver(K, [k \in K |-> kids[k].deleted_size]),
                !.has_deleted_descendants =
                    @ \/ \E k \in K : kids[k].has_deleted_descendants]

RECURSIVE compute_totals(_)

\* TreeNode::compute_totals
compute_totals(node) ==
    IF DOMAIN node.children = {}
    THEN LET is_deleted == node.current_size = 0 /\ node.cumulative_size > 0
         IN  [node EXCEPT !.has_deleted_descendants = is_deleted,
                          !.deleted_size = IF is_deleted THEN node.cumulative_size ELSE 0]
    ELSE LET kids == [k \in DOMAIN node.children |-> compute_totals(node.children[k])]
             K == DOMAIN kids
         IN  [node EXCEPT
                !.children = kids,
                !.cumulative_size = @ + SumOver(K, [k \in K |-> kids[k].cumulative_size]),
                !.current_size = @ + SumOver(K, [k \in K |-> kids[k].current_size]),
                !.blob_count = @ + SumOver(K, [k \in K |-> kids[k].blob_count]),
                !.deleted_size = @ + SumOver(K, [k \in K |-> kids[k].deleted_size]),
                !.has_deleted_descendants =
                    @ \/ \E k \in K : kids[k].has_deleted_descendants]

RECURSIVE InSomeOrder(_)

\* the elements of a finite set in an order of the implementation's choosing,
\* as HashMap::values yields them
InSomeOrder(S) ==
    IF S = {} THEN <<>>
    ELSE LET e == CHOOSE e \in S : TRUE
         IN  <<e>> \o InSomeOrder(S \ {e})

\* `for child in node.children.values() { stack.push((child, len)) }`
PushChildren(stack, node, len) ==
    LET order == InSomeOrder(DOMAIN node.children)
    IN  stack \o [k \in 1..Len(order) |-> <<node.children[order[k]], len>>]

RECURSIVE visit_loop(_, _, _)

\* the `while let Some((node, base_len)) = stack.pop()` loop of visit_leaves;
\* path is the reused buffer, visited the calls of f so far as <<path, node>>
visit_loop(stack, path, visited) ==
    IF stack = <<>> THEN visited
    ELSE LET node == stack[Len(stack)][1]
             base_len == stack[Len(stack)][2]
             popped == SubSeq(stack, 1, Len(stack) - 1)
             truncated == SubSeq(path, 1, base_len)
             path2 == (IF truncated # <<>> THEN Append(truncated, "/") ELSE truncated)
                      \o node.name
         IN  IF DOMAIN node.children = {}
             THEN visit_loop(popped, path2, Append(visited, <<path2, node>>))
             ELSE visit_loop(PushChildren(popped, node, Len(path2)), path2, visited)

\* TreeNode::visit_leaves
visit_leaves(root) == visit_loop(PushChildren(<<>>, root, 0), <<>>, <<>>)

\* ------------------------------------------------------------ database.rs
BATCH_SIZE == 5000

\* repository/mod.rs: SCHEMA_VERSION
SCHEMA_VERSION == "8"

\* a store right after init_schema rebuilt it: the metadata table holds only
\* schema_version, the four data tables are empty
EmptyDb ==
    [schema_version |-> <<SCHEMA_VERSION>>, head_oid |-> <<>>, paths |-> <<>>,
     seen_blobs |-> {}, scanned_commits |-> {}, blobs |-> <<>>]

RECURSIVE Split(_, _)

\* str::split('/'): the parts of a path, cur being the part under construction
Split(path, cur) ==
    IF path = <<>> THEN <<cur>>
    ELSE IF path[1] = "/" THEN <<cur>> \o Split(Tail(path), <<>>)
    ELSE Split(Tail(path), Append(cur, path[1]))

\* an upsert that overwrites the row: ON CONFLICT(path) DO UPDATE SET
\* cumulative_size = excluded.cumulative_size, ...
UpsertPathReplace(paths, record) ==
    [p \in DOMAIN paths \cup {record.path} |->
        IF p = record.path
        THEN [cumulative_size |-> record.cumulative_size,
              current_size |-> record.current_size, blob_count |-> 1]
        ELSE paths[p]]

\* an upsert that counts only the records that carry a size
UpsertPathSizedOnly(paths, record) ==
    LET n == IF record.cumulative_size > 0 THEN 1 ELSE 0
    IN  IF record.path \in DOMAIN paths
        THEN [paths EXCEPT ![record.path] =
                [cumulative_size |-> @.cumulative_size + record.cumulative_size,
                 current_size |-> @.current_size + record.current_size,
                 blob_count |-> @.blob_count + n]]
        ELSE [p \in DOMAIN paths \cup {record.path} |->
                IF p = record.path
                THEN [cumulative_size |-> record.cumulative_size,
                      current_size |-> record.current_size, blob_count |-> n]
                ELSE paths[p]]

\* one row of the paths upsert: INSERT ... ON CONFLICT(path) DO UPDATE
UpsertPath(paths, record) ==
    IF record.path \in DOMAIN paths
    THEN [paths EXCEPT ![record.path] =
            [cumulative_size |-> @.cumulative_size + record.cumulative_size,
             current_size |-> @.current_size + record.current_size,
             blob_count |-> @.blob_count + 1]]
    ELSE [p \in DOMAIN paths \cup {record.path} |->
            IF p = record.path
            THEN [cumulative_size |-> record.cumulative_size,
                  current_size |-> record.current_size, blob_count |-> 1]
            ELSE paths[p]]

RECURSIVE UpsertAll(_, _, _)

UpsertAll(paths, chunk, k) ==
    IF k > Len(chunk) THEN paths
    ELSE UpsertAll(UpsertPath(paths, chunk[k]), chunk, k + 1)

Min(a, b) == IF a < b THEN a ELSE b

RECURSIVE save_blobs_chunks(_, _, _)

\* the loop `for chunk in blobs.chunks(batch)` of save_blobs_in_tx: per chunk,
\* INSERT OR IGNORE INTO seen_blobs and the multi-row upsert into paths
save_blobs_chunks(t, blobs, batch) ==
    IF blobs = <<>> THEN t
    ELSE LET n == Min(batch, Len(blobs))
             chunk == SubSeq(blobs, 1, n)
             t2 == [t EXCEPT !.seen_blobs = @ \cup {chunk[k].oid : k \in 1..n},
                             !.paths = UpsertAll(@, chunk, 1)]
         IN  save_blobs_chunks(t2, SubSeq(blobs, n + 1, Len(blobs)), batch)

\* Database::save_blobs_in_tx
save_blobs_in_tx(t, blobs) == save_blobs_chunks(t, blobs, BATCH_SIZE)

RECURSIVE InsertOrIgnoreBlobs(_, _, _)

InsertOrIgnoreBlobs(blobs, chunk, k) ==
    IF k > Len(chunk) THEN blobs
    ELSE LET r == chunk[k]
             b2 == IF r.oid \in DOMAIN blobs THEN blobs
                   ELSE [o \in DOMAIN blobs \cup {r.oid} |->
                           IF o = r.oid
                           THEN [size |-> r.size, path |-> r.path,
                                 first_author |-> r.author, first_date |-> r.timestamp]
                           ELSE blobs[o]]
         IN  InsertOrIgnoreBlobs(b2, chunk, k + 1)

RECURSIVE save_blob_metadata_in_tx(_, _)

\* Database::save_blob_metadata_in_tx: INSERT OR IGNORE INTO blobs, per chunk
save_blob_metadata_in_tx(t, metadata) ==
    IF metadata = <<>> THEN t
    ELSE LET n == Min(BATCH_SIZE, Len(metadata))
             t2 == [t EXCEPT !.blobs = InsertOrIgnoreBlobs(@, SubSeq(metadata, 1, n), 1)]
         IN  save_blob_metadata_in_tx(t2, SubSeq(metadata, n + 1, Len(metadata)))

\* a transaction that leaves scanned_commits as it was
mark_commits_scanned_none(t, commits) == t

\* Database::mark_commits_scanned_in_tx: INSERT OR IGNORE INTO scanned_commits
mark_commits_scanned_in_tx(t, commits) ==
    [t EXCEPT !.scanned_commits = @ \cup {commits[k] : k \in 1..Len(commits)}]

\* Database::save_blobs_with_callback run to its commit: begin, save_blobs_in_tx,
\* commit
save_blobs_with_callback(d, blobs) == save_blobs_in_tx(d, blobs)

\* Database::apply_scan_with_callback run to its commit
apply_scan_with_callback(d, blobs, metadata, commit_oids) ==
    mark_commits_scanned_in_tx(
        save_blob_metadata_in_tx(save_blobs_in_tx(d, blobs), metadata),
        commit_oids)

\* a store whose statements are committed one by one: the writes made so far stay
RollbackKeepsWrites(committed, pending) == pending

\* what the store holds after a transaction was dropped without commit
\* (an error return by `?`, or the process being killed): the committed state
Rollback(committed, pending) == committed

\* Database::set_metadata("head_oid", value)
set_head_oid(d, oid_hex) == [d EXCEPT !.head_oid = <<oid_hex>>]

\* init_schema, the rebuild branch: DROP TABLE IF EXISTS for every data table
\* and DELETE FROM metadata
DropAll(d) ==
    [d EXCEPT !.paths = <<>>, !.seen_blobs = {}, !.scanned_commits = {},
              !.blobs = <<>>, !.schema_version = <<>>, !.head_oid = <<>>]

\* init_schema that rebuilds on every call
init_schema_always(d) ==
    [store   |-> [DropAll(d) EXCEPT !.schema_version = <<SCHEMA_VERSION>>],
     rebuilt |-> TRUE]

\* init_schema that never rebuilds
init_schema_keep(d) == [store |-> d, rebuilt |-> FALSE]

\* Database::init_schema: the store afterwards and the returned flag.  The
\* CREATE TABLE IF NOT EXISTS statements leave existing tables as they are.
init_schema(d) ==
    LET needs_rebuild == d.schema_version # <<SCHEMA_VERSION>>
    IN  [store   |-> IF needs_rebuild
                     THEN [DropAll(d) EXCEPT !.schema_version = <<SCHEMA_VERSION>>]
                     ELSE d,
         rebuilt |-> needs_rebuild]

RECURSIVE AbsorbRows(_, _, _)

\* the row loop of Database::load_tree
AbsorbRows(root, paths, todo) ==
    IF todo = {} THEN root
    ELSE LET p == CHOOSE p \in todo : TRUE
         IN  AbsorbRows(add_path_with_sizes(root, Split(p, <<>>),
                                            paths[p].cumulative_size,
                                            paths[p].current_size,
                                            paths[p].blob_count),
                        paths, todo \ {p})

\* Database::load_tree
load_tree(d) ==
    compute_totals(AbsorbRows(NewNode(<<"(root)">>), d.paths, DOMAIN d.paths))

\* ------------------------------------------------------------ db_store.rs
\* the BlobRow -> BlobRecord conversion of apply_scan
BlobsForDb(delta, interner) ==
    [k \in 1..Len(delta.blobs) |->
        [oid |-> delta.blobs[k].oid,
         path |-> get_str(interner, delta.blobs[k].path_id),
         cumulative_size |-> delta.blobs[k].cumulative_size,
         current_size |-> delta.blobs[k].current_size]]

\* the BlobMetaRow -> BlobMetaRecord conversion of apply_scan
MetadataForDb(delta, interner) ==
    [k \in 1..Len(delta.metadata) |->
        [oid |-> delta.metadata[k].oid, size |-> delta.metadata[k].size,
         path |-> get_str(interner, delta.metadata[k].path_id),
         author |-> delta.metadata[k].author,
         timestamp |-> delta.metadata[k].timestamp]]

\* ------------------------------------------------------------ state
VARIABLES
    history,          \* repository: the root tree of commit 1, 2, ... (oldest first)
    undecodable,      \* repository: commits whose object or author line fails to decode
    head,             \* repository: the commit HEAD resolves to
    db,               \* the store as committed on disk
    tx,               \* <<the open transaction's view of the store>>, or NoTx
    pc,               \* position of GitScanner::scan
    head_hex,         \* scan local: HEAD resolved at the start of the run
    snap,             \* scan local: head snapshot and interner
    commits_to_scan,  \* scan local
    ctx,              \* scan local: TreeScanCtx
    idx,              \* scan local: position of the scan_commits loop
    delta,            \* scan local: ScanDelta
    result,           \* what scan returned: a tree, or <<"err", phase>>
    startDb,          \* history variable: db when the running scan began
    attemptDb,        \* history variable: db when the first attempt for this HEAD began
    retry,            \* history variable: an attempt for this HEAD was killed or failed
    killedInTx,       \* history variable: an attempt was killed inside apply_scan
    wrote,            \* history variable: the running scan issued a store write
    walked,           \* history variable: commits the running scan walked
    prev,             \* history variable: <<head, db and tree of the last scan returned for this HEAD>>
    sizedRows,        \* history variable: per oid, persisted BlobRows carrying its size
    metaRows,         \* history variable: per oid, persisted BlobMetaRows
    store,            \* Database API: the store file a caller works on directly
    opened,           \* Database API: init_schema ran on this connection
    input,            \* Database API: the blob records the caller has to save
    fed,              \* Database API: how many records of input were saved
    before,           \* history variable: store before the last call
    ret,              \* Database API: <<name of the last call, what it returned>>
    path_interner,    \* PathInterner: its vec (the map is the inverse of vec)
    issued,           \* history variable: <<bytes, id>> of every intern call, oldest first
    index,            \* one pack: the entries as the index file yields them
    pack_end,         \* one pack: offset where the pack's data ends
    sizes,            \* one pack: <<what load_pack_compressed_sizes returned>>, or <<>>
    tables,           \* store file: the tables that exist
    init_pc,          \* position of the process that opened the store file
    stmt,             \* init_schema local: the next statement of its list
    needs_rebuild,    \* init_schema local
    interrupted,      \* history variable: the last init_schema was killed in a rebuild
    app,              \* the AppViewModel main.rs created
    action,           \* what the last handle_intent returned
    intent,           \* history variable: the last intent handled
    test_list,        \* a Selectable list used on its own
    list_op,          \* history variable: the last call on test_list
    list_before       \* history variable: test_list before the last call

scanVars == <<history, undecodable, head, db, tx, pc, head_hex, snap, commits_to_scan,
              ctx, idx, delta, result, startDb, attemptDb, retry, killedInTx, wrote,
              walked, prev, sizedRows, metaRows>>

storeVars == <<store, opened, input, fed, before, ret>>

\* the variables the scanner's steps leave alone
internVars == <<path_interner, issued>>

packVars == <<index, pack_end, sizes>>

rebuildVars == <<tables, init_pc, stmt, needs_rebuild, interrupted>>

viewVars == <<app, action, intent>>

listVars == <<test_list, list_op, list_before>>

unitVars == <<internVars, packVars, rebuildVars, viewVars, listVars>>

otherVars == <<storeVars, unitVars>>

vars == <<scanVars, otherVars>>

repoVars == <<history, undecodable>>

localVars == <<head_hex, snap, commits_to_scan, ctx, idx, delta, result>>

\* CommitInfo built by scan_commits for commit oid
CommitInfoOf(oid) ==
    [oid |-> oid, tree |-> history[oid], author |-> CommitAuthor(oid),
     timestamp |-> CommitSeconds(oid)]

Histories == UNION {[1..n -> RootTrees] : n \in 1..MaxCommits}

\* no caller works on a store directly
StoreIdle ==
    /\ store = EmptyDb
    /\ opened = FALSE
    /\ input = <<>>
    /\ fed = 0
    /\ before = EmptyDb
    /\ ret = <<"none">>

\* no PathInterner is exercised on its own
InternIdle ==
    /\ path_interner = <<>>
    /\ issued = <<>>

\* no pack is loaded on its own
PackIdle ==
    /\ index = <<>>
    /\ pack_end = 0
    /\ sizes = <<>>

\* no init_schema is followed statement by statement
RebuildIdle ==
    /\ tables = {}
    /\ init_pc = "off"
    /\ stmt = 0
    /\ needs_rebuild = FALSE
    /\ interrupted = FALSE

\* no AppViewModel was created
ViewIdle ==
    /\ app = <<>>
    /\ action = "none"
    /\ intent = <<>>

\* no Selectable list is exercised on its own
ListIdle ==
    /\ test_list = <<>>
    /\ list_op = "none"
    /\ list_before = <<>>

UnitIdle ==
    /\ InternIdle
    /\ PackIdle
    /\ RebuildIdle
    /\ ViewIdle
    /\ ListIdle

Init ==
    /\ UnitIdle
    /\ history \in Histories
    /\ undecodable \in {u \in SUBSET (1..Len(history)) : Cardinality(u) <= MaxUndecodable}
    /\ head = 1
    /\ db = EmptyDb
    /\ tx = NoTx
    /\ pc = "idle"
    /\ head_hex = 0
    /\ snap = None
    /\ commits_to_scan = <<>>
    /\ ctx = None
    /\ idx = 0
    /\ delta = None
    /\ result = None
    /\ startDb = None
    /\ attemptDb = None
    /\ retry = FALSE
    /\ killedInTx = FALSE
    /\ wrote = FALSE
    /\ walked = {}
    /\ prev = <<>>
    /\ sizedRows = [o \in BlobOids |-> 0]
    /\ metaRows = [o \in BlobOids |-> 0]
    /\ StoreIdle

\* a new commit becomes HEAD; the repository does not change during a scan
AdvanceHead ==
    /\ pc = "idle"
    /\ head < Len(history)
    /\ head' = head + 1
    /\ retry' = FALSE
    /\ killedInTx' = FALSE
    /\ attemptDb' = None
    /\ prev' = <<>>
    /\ UNCHANGED <<otherVars, repoVars, db, tx, pc, localVars, startDb, wrote, walked, sizedRows,
                   metaRows>>

\* scan, phase 1: open the repository and resolve HEAD
ScanBegin ==
    /\ pc = "idle"
    /\ pc' = "check_cache"
    /\ head_hex' = head
    /\ startDb' = db
    /\ attemptDb' = IF retry THEN attemptDb ELSE db
    /\ wrote' = FALSE
    /\ walked' = {}
    /\ UNCHANGED <<otherVars, repoVars, head, db, tx, snap, commits_to_scan, ctx, idx, delta,
                   result, retry, killedInTx, prev, sizedRows, metaRows>>

\* phase 2 without the fast path
CheckCacheNoFastPath ==
    /\ pc = "check_cache"
    /\ pc' = "plan"
    /\ UNCHANGED <<otherVars, repoVars, head, db, tx, localVars, startDb, attemptDb, retry,
                   killedInTx, wrote, walked, prev, sizedRows, metaRows>>

\* scan, phase 2: compare the stored cursor with HEAD
CheckCache ==
    /\ pc = "check_cache"
    /\ pc' = IF db.head_oid = <<head_hex>> THEN "load_cached" ELSE "plan"
    /\ UNCHANGED <<otherVars, repoVars, head, db, tx, localVars, startDb, attemptDb, retry,
                   killedInTx, wrote, walked, prev, sizedRows, metaRows>>

\* scan, fast path: return store.load_tree()
LoadCached ==
    /\ pc = "load_cached"
    /\ result' = load_tree(db)
    /\ pc' = "done"
    /\ UNCHANGED <<otherVars, repoVars, head, db, tx, head_hex, snap, commits_to_scan, ctx, idx,
                   delta, startDb, attemptDb, retry, killedInTx, wrote, walked, prev,
                   sizedRows, metaRows>>

\* scan, phases 3 to 6: pack sizes, head snapshot, revwalk, plan
Plan ==
    /\ pc = "plan"
    /\ snap' = build_head_snapshot(history[head_hex], head_hex)
    /\ commits_to_scan' = plan_commits(collect_commits(head_hex), db.scanned_commits)
    /\ pc' = IF commits_to_scan' = <<>> THEN "short_set_head" ELSE "load_seen"
    /\ UNCHANGED <<otherVars, repoVars, head, db, tx, head_hex, ctx, idx, delta, result, startDb,
                   attemptDb, retry, killedInTx, wrote, walked, prev, sizedRows,
                   metaRows>>

\* scan, commits_to_scan empty: persist the cursor
ShortCircuit ==
    /\ pc = "short_set_head"
    /\ db' = set_head_oid(db, head_hex)
    /\ wrote' = TRUE
    /\ pc' = "load_tree"
    /\ UNCHANGED <<otherVars, repoVars, head, tx, localVars, startDb, attemptDb, retry, killedInTx,
                   walked, prev, sizedRows, metaRows>>

\* scan, phase 7, and TreeScanCtx::new in scan_commits
LoadSeen ==
    /\ pc = "load_seen"
    /\ ctx' = NewCtx(snap.snapshot, snap.interner, db.seen_blobs)
    /\ idx' = 1
    /\ pc' = "scan"
    /\ UNCHANGED <<otherVars, repoVars, head, db, tx, head_hex, snap, commits_to_scan, delta,
                   result, startDb, attemptDb, retry, killedInTx, wrote, walked, prev,
                   sizedRows, metaRows>>

\* scan, phase 8: one iteration of the scan_commits loop; after the last one
\* ctx.finish() is the delta
ScanCommit ==
    /\ pc = "scan"
    /\ idx <= Len(commits_to_scan)
    /\ LET oid == commits_to_scan[idx]
       IN  /\ ctx' = IF oid \in undecodable THEN ctx
                     ELSE scan_commit(ctx, CommitInfoOf(oid))
           /\ walked' = IF oid \in undecodable THEN walked ELSE walked \cup {oid}
    /\ idx' = idx + 1
    /\ IF idx = Len(commits_to_scan)
       THEN pc' = "apply" /\ delta' = ctx'.out
       ELSE pc' = pc /\ delta' = delta
    /\ UNCHANGED <<otherVars, repoVars, head, db, tx, head_hex, snap, commits_to_scan, result,
                   startDb, attemptDb, retry, killedInTx, wrote, prev, sizedRows,
                   metaRows>>

\* apply_scan_with_callback: pool.begin()
TxBegin ==
    /\ pc = "apply"
    /\ tx' = <<db>>
    /\ pc' = "tx_blobs"
    /\ UNCHANGED <<otherVars, repoVars, head, db, localVars, startDb, attemptDb, retry, killedInTx,
                   wrote, walked, prev, sizedRows, metaRows>>

\* save_blobs in a transaction of its own, as ScanStore::save_delta_rows does
SaveBlobsOwnTransaction ==
    /\ pc = "tx_blobs"
    /\ db' = save_blobs_in_tx(db, BlobsForDb(delta, ctx.interner))
    /\ tx' = <<db'>>
    /\ wrote' = TRUE
    /\ pc' = "tx_meta"
    /\ UNCHANGED <<otherVars, repoVars, head, localVars, startDb, attemptDb, retry, killedInTx,
                   walked, prev, sizedRows, metaRows>>

\* apply_scan_with_callback: save_blobs_in_tx
SaveBlobs ==
    /\ pc = "tx_blobs"
    /\ tx' = <<save_blobs_in_tx(tx[1], BlobsForDb(delta, ctx.interner))>>
    /\ wrote' = TRUE
    /\ pc' = "tx_meta"
    /\ UNCHANGED <<otherVars, repoVars, head, db, localVars, startDb, attemptDb, retry, killedInTx,
                   walked, prev, sizedRows, metaRows>>

\* apply_scan_with_callback: save_blob_metadata_in_tx
SaveMeta ==
    /\ pc = "tx_meta"
    /\ tx' = <<save_blob_metadata_in_tx(tx[1], MetadataForDb(delta, ctx.interner))>>
    /\ pc' = "tx_mark"
    /\ UNCHANGED <<otherVars, repoVars, head, db, localVars, startDb, attemptDb, retry, killedInTx,
                   wrote, walked, prev, sizedRows, metaRows>>

\* apply_scan_with_callback: mark_commits_scanned_in_tx
MarkCommits ==
    /\ pc = "tx_mark"
    /\ tx' = <<mark_commits_scanned_in_tx(tx[1], commits_to_scan)>>
    /\ pc' = "tx_commit"
    /\ UNCHANGED <<otherVars, repoVars, head, db, localVars, startDb, attemptDb, retry, killedInTx,
                   wrote, walked, prev, sizedRows, metaRows>>

\* apply_scan_with_callback: tx.commit()
TxCommit ==
    /\ pc = "tx_commit"
    /\ db' = tx[1]
    /\ tx' = NoTx
    /\ pc' = "set_head"
    /\ sizedRows' = [o \in BlobOids |-> sizedRows[o] +
                        Cardinality({k \in 1..Len(delta.blobs) :
                                        /\ delta.blobs[k].oid = o
                                        /\ delta.blobs[k].cumulative_size = size_of(o)})]
    /\ metaRows' = [o \in BlobOids |-> metaRows[o] +
                        Cardinality({k \in 1..Len(delta.metadata) :
                                        delta.metadata[k].oid = o})]
    /\ UNCHANGED <<otherVars, repoVars, head, localVars, startDb, attemptDb, retry, killedInTx,
                   wrote, walked, prev>>

\* the cursor written before apply_scan
SetHeadBeforeApply ==
    /\ pc \in {"apply", "set_head"}
    /\ db' = set_head_oid(db, head_hex)
    /\ pc' = IF pc = "apply" THEN "apply_after_head" ELSE "load_tree"
    /\ UNCHANGED <<otherVars, repoVars, head, tx, localVars, startDb, attemptDb, retry, killedInTx,
                   wrote, walked, prev, sizedRows, metaRows>>

\* scan: store.set_head_oid after apply_scan
SetHead ==
    /\ pc = "set_head"
    /\ db' = set_head_oid(db, head_hex)
    /\ pc' = "load_tree"
    /\ UNCHANGED <<otherVars, repoVars, head, tx, localVars, startDb, attemptDb, retry, killedInTx,
                   wrote, walked, prev, sizedRows, metaRows>>

\* scan, last phase: store.load_tree() is the return value
LoadTree ==
    /\ pc = "load_tree"
    /\ result' = load_tree(db)
    /\ pc' = "done"
    /\ UNCHANGED <<otherVars, repoVars, head, db, tx, head_hex, snap, commits_to_scan, ctx, idx,
                   delta, startDb, attemptDb, retry, killedInTx, wrote, walked, prev,
                   sizedRows, metaRows>>

\* the store calls whose error scan propagates with `?`
Fallible == {"load_cached", "short_set_head", "load_seen", "apply", "tx_blobs",
             "tx_meta", "tx_mark", "tx_commit", "set_head", "load_tree"}

\* a store call fails: an open transaction is dropped, scan returns the error
StoreError ==
    /\ pc \in Fallible
    /\ db' = IF tx # NoTx THEN Rollback(db, tx[1]) ELSE db
    /\ tx' = NoTx
    /\ result' = <<"err", pc>>
    /\ pc' = "error"
    /\ UNCHANGED <<otherVars, repoVars, head, head_hex, snap, commits_to_scan, ctx, idx, delta,
                   startDb, attemptDb, retry, killedInTx, wrote, walked, prev,
                   sizedRows, metaRows>>

\* scan has returned; its locals are dropped
Return ==
    /\ pc \in {"done", "error"}
    /\ pc' = "idle"
    /\ prev' = IF pc = "done" THEN <<[head |-> head_hex, db |-> db, tree |-> result]>>
               ELSE prev
    /\ retry' = (pc = "error")
    /\ killedInTx' = IF pc = "done" THEN FALSE ELSE killedInTx
    /\ head_hex' = 0
    /\ snap' = None
    /\ commits_to_scan' = <<>>
    /\ ctx' = None
    /\ idx' = 0
    /\ delta' = None
    /\ result' = None
    /\ startDb' = None
    /\ wrote' = FALSE
    /\ walked' = {}
    /\ attemptDb' = IF pc = "done" THEN None ELSE attemptDb
    /\ UNCHANGED <<otherVars, repoVars, head, db, tx, sizedRows, metaRows>>

\* the process is killed during scan: memory is lost, an open transaction is
\* never committed
Kill ==
    /\ pc \notin {"idle", "done", "error"}
    /\ pc' = "idle"
    /\ db' = IF tx # NoTx THEN Rollback(db, tx[1]) ELSE db
    /\ tx' = NoTx
    /\ retry' = TRUE
    /\ killedInTx' = (killedInTx \/ tx # NoTx)
    /\ head_hex' = 0
    /\ snap' = None
    /\ commits_to_scan' = <<>>
    /\ ctx' = None
    /\ idx' = 0
    /\ delta' = None
    /\ result' = None
    /\ startDb' = None
    /\ wrote' = FALSE
    /\ walked' = {}
    /\ UNCHANGED <<otherVars, repoVars, head, attemptDb, prev, sizedRows, metaRows>>

Next ==
    \/ AdvanceHead
    \/ ScanBegin
    \/ CheckCache
    \/ LoadCached
    \/ Plan
    \/ ShortCircuit
    \/ LoadSeen
    \/ ScanCommit
    \/ TxBegin
    \/ SaveBlobs
    \/ SaveMeta
    \/ MarkCommits
    \/ TxCommit
    \/ SetHead
    \/ LoadTree
    \/ StoreError
    \/ Return
    \/ Kill

Spec == Init /\ [][Next]_vars

\* ------------------------------------------------------------ reference
\* the blob a root tree holds at a path, or Absent
BlobAt(tree_oid, path) ==
    IF path = <<"a">> THEN tree_oid[2]
    ELSE IF path = <<"d", "/", "f">> THEN tree_oid[3]
    ELSE Absent

\* every path a root tree can hold a blob at, in tree-entry order
AllPaths == << <<"a">>, <<"d", "/", "f">> >>

RECURSIVE ScanLoop(_, _, _)

\* the loop of scan_commits from commit k on
ScanLoop(c, commits, k) ==
    IF k > Len(commits) THEN c
    ELSE ScanLoop(IF commits[k] \in undecodable THEN c
                  ELSE scan_commit(c, CommitInfoOf(commits[k])),
                  commits, k + 1)

\* the four data tables of a store
DataOf(d) == <<d.paths, d.seen_blobs, d.blobs, d.scanned_commits>>

\* apply_scan_with_callback run to its commit on store d
AppliedAll(d, dlt, interner, commits) ==
    mark_commits_scanned_in_tx(
        save_blob_metadata_in_tx(
            save_blobs_in_tx(d, BlobsForDb(dlt, interner)),
            MetadataForDb(dlt, interner)),
        commits)

\* GitScanner::scan run without interruption on store d with HEAD at h
UninterruptedScan(d, h) ==
    IF d.head_oid = <<h>> THEN d
    ELSE LET sn == build_head_snapshot(history[h], h)
             plan == plan_commits(collect_commits(h), d.scanned_commits)
         IN  IF plan = <<>> THEN set_head_oid(d, h)
             ELSE LET c == ScanLoop(NewCtx(sn.snapshot, sn.interner, d.seen_blobs), plan, 1)
                  IN  set_head_oid(AppliedAll(d, c.out, c.interner, plan), h)

TxPcs == {"tx_blobs", "tx_meta", "tx_mark", "tx_commit"}

\* ------------------------------------------------------------ Database API
\* A caller that works on a Database directly, as the tests of the store do:
\* it saves the records of `input` in one or more calls and loads the tree.
MaxRows == 2

\* paths of the records: a file, a file below a directory of the same name,
\* and a sibling
RecordPaths == {<<"a">>, <<"a", "/", "b">>, <<"c">>}

\* (cumulative, current) shapes of a BlobRow: new blob in HEAD, new blob not
\* in HEAD, seen blob in HEAD
RowShapes == {<<TRUE, TRUE>>, <<TRUE, FALSE>>, <<FALSE, TRUE>>}

BlobRecords ==
    {[oid |-> o, path |-> p,
      cumulative_size |-> IF sh[1] THEN size_of(o) ELSE 0,
      current_size |-> IF sh[2] THEN size_of(o) ELSE 0] :
        o \in BlobOids, p \in RecordPaths, sh \in RowShapes}

Inputs == UNION {[1..n -> BlobRecords] : n \in 0..MaxRows}

\* the scanner does not run
ScanOff ==
    /\ history = <<>>
    /\ undecodable = {}
    /\ head = 0
    /\ db = EmptyDb
    /\ tx = NoTx
    /\ pc = "off"
    /\ head_hex = 0
    /\ snap = None
    /\ commits_to_scan = <<>>
    /\ ctx = None
    /\ idx = 0
    /\ delta = None
    /\ result = None
    /\ startDb = None
    /\ attemptDb = None
    /\ retry = FALSE
    /\ killedInTx = FALSE
    /\ wrote = FALSE
    /\ walked = {}
    /\ prev = <<>>
    /\ sizedRows = [o \in BlobOids |-> 0]
    /\ metaRows = [o \in BlobOids |-> 0]

\* Database::new and init_schema on a new file, as every test of the store starts
StoreInit ==
    /\ ScanOff
    /\ UnitIdle
    /\ input \in Inputs
    /\ store = init_schema(DropAll(EmptyDb)).store
    /\ opened = TRUE
    /\ fed = 0
    /\ before = DropAll(EmptyDb)
    /\ ret = <<"init_schema", init_schema(DropAll(EmptyDb)).rebuilt>>

\* db.save_blobs(&input[fed .. fed + n], None)
SaveBlobsCall ==
    /\ opened
    /\ \E n \in 1..(Len(input) - fed) :
           /\ store' = save_blobs_with_callback(store, SubSeq(input, fed + 1, fed + n))
           /\ fed' = fed + n
    /\ before' = store
    /\ ret' = <<"save_blobs">>
    /\ UNCHANGED <<scanVars, unitVars, opened, input>>

\* db.load_tree()
LoadTreeCall ==
    /\ opened
    /\ ret' = <<"load_tree", load_tree(store)>>
    /\ before' = store
    /\ UNCHANGED <<scanVars, unitVars, store, opened, input, fed>>

StoreNext ==
    \/ SaveBlobsCall
    \/ LoadTreeCall

StoreSpec == StoreInit /\ [][StoreNext]_vars

\* ------------------------------------------------------------ schema gate
\* A store file found on disk is opened: it is new, or it was written by a
\* build with another SCHEMA_VERSION, or by this build.
OtherVersion == "7"

\* metadata records of the rows that carry a blob's size
MetaOf(rows) ==
    LET sized == SelectSeq(rows, LAMBDA r : r.cumulative_size > 0)
    IN  [k \in 1..Len(sized) |->
            [oid |-> sized[k].oid, size |-> sized[k].cumulative_size,
             path |-> sized[k].path, author |-> CommitAuthor(1),
             timestamp |-> CommitSeconds(1)]]

\* a store after a scan of one commit applied the rows and set the cursor
Populated(rows) ==
    set_head_oid(apply_scan_with_callback(EmptyDb, rows, MetaOf(rows), <<1>>), 1)

SchemaInit ==
    /\ ScanOff
    /\ UnitIdle
    /\ input \in Inputs
    /\ \E v \in {<<>>, <<OtherVersion>>, <<SCHEMA_VERSION>>} :
           /\ store = IF v = <<>> THEN DropAll(EmptyDb)
                      ELSE [Populated(input) EXCEPT !.schema_version = v]
           /\ fed = IF v = <<>> THEN 0 ELSE Len(input)
    /\ opened = FALSE
    /\ before = store
    /\ ret = <<"none">>

\* db.init_schema()
InitSchemaCall ==
    /\ store' = init_schema(store).store
    /\ ret' = <<"init_schema", init_schema(store).rebuilt>>
    /\ fed' = IF init_schema(store).rebuilt THEN 0 ELSE fed
    /\ opened' = TRUE
    /\ before' = store
    /\ UNCHANGED <<scanVars, unitVars, input>>

\* the rows of input are applied as a scan applies them
ApplyScanCall ==
    /\ opened
    /\ fed = 0
    /\ input # <<>>
    /\ store' = apply_scan_with_callback(store, input, MetaOf(input), <<1>>)
    /\ fed' = Len(input)
    /\ before' = store
    /\ ret' = <<"apply_scan">>
    /\ UNCHANGED <<scanVars, unitVars, opened, input>>

\* db.set_metadata("head_oid", ...)
SetHeadOidCall ==
    /\ opened
    /\ store' = set_head_oid(store, 1)
    /\ before' = store
    /\ ret' = <<"set_metadata">>
    /\ UNCHANGED <<scanVars, unitVars, opened, input, fed>>

SchemaNext ==
    \/ InitSchemaCall
    \/ ApplyScanCall
    \/ SetHeadOidCall
    \/ LoadTreeCall

SchemaSpec == SchemaInit /\ [][SchemaNext]_vars

\* ------------------------------------------------------------ large blobs
\* A caller that saves blob metadata and asks for the largest blobs.
MaxBlobs == 4

MaxLimit == 3

TopSizes == {100, 250, 500, 1000}

\* metadata records of blobs 1, 2, ..., n with any sizes
MetaInputs ==
    UNION {{[k \in 1..n |->
                [oid |-> k, size |-> sz[k], path |-> <<"p">>, author |-> "author",
                 timestamp |-> 1000 + k]] : sz \in [1..n -> TopSizes]} : n \in 0..MaxBlobs}

\* the row of oid o as a LargeBlobInfo
LargeBlobInfoOf(d, o) ==
    [oid |-> o, size |-> d.blobs[o].size, path |-> d.blobs[o].path,
     first_author |-> d.blobs[o].first_author, first_date |-> d.blobs[o].first_date]

RECURSIVE OrderBySize(_, _, _, _)

\* SELECT ... FROM blobs ORDER BY size <dir> LIMIT <limit> over the rows of the
\* oids in todo: every result the query may give, rows of equal size coming
\* in any order.  first(a, b) tells that size a is placed no later than b.
OrderBySize(d, todo, limit, descending) ==
    IF limit = 0 \/ todo = {} THEN {<<>>}
    ELSE UNION {{<<LargeBlobInfoOf(d, o)>> \o q :
                    q \in OrderBySize(d, todo \ {o}, limit - 1, descending)} :
                o \in {o \in todo : \A o2 \in todo :
                          IF descending THEN d.blobs[o].size >= d.blobs[o2].size
                          ELSE d.blobs[o].size <= d.blobs[o2].size}}

\* a query that orders by size ascending
get_top_blobs_ascending(d, limit) == OrderBySize(d, DOMAIN d.blobs, limit, FALSE)

\* Database::get_top_blobs: the lists it may return
get_top_blobs(d, limit) == OrderBySize(d, DOMAIN d.blobs, limit, TRUE)

\* Database::save_blob_metadata_with_callback run to its commit
save_blob_metadata_with_callback(d, metadata) == save_blob_metadata_in_tx(d, metadata)

BlobsInit ==
    /\ ScanOff
    /\ UnitIdle
    /\ input \in MetaInputs
    /\ store = init_schema(DropAll(EmptyDb)).store
    /\ opened = TRUE
    /\ fed = 0
    /\ before = DropAll(EmptyDb)
    /\ ret = <<"init_schema", init_schema(DropAll(EmptyDb)).rebuilt>>

\* db.save_blob_metadata(&input[fed .. fed + n], None)
SaveBlobMetadataCall ==
    /\ opened
    /\ \E n \in 1..(Len(input) - fed) :
           /\ store' = save_blob_metadata_with_callback(store,
                           SubSeq(input, fed + 1, fed + n))
           /\ fed' = fed + n
    /\ before' = store
    /\ ret' = <<"save_blob_metadata">>
    /\ UNCHANGED <<scanVars, unitVars, opened, input>>

\* db.get_top_blobs(limit)
TopBlobsCall ==
    /\ opened
    /\ \E limit \in 0..MaxLimit :
           \E q \in get_top_blobs(store, limit) :
               ret' = <<"get_top_blobs", limit, q>>
    /\ before' = store
    /\ UNCHANGED <<scanVars, unitVars, store, opened, input, fed>>

BlobsNext ==
    \/ SaveBlobMetadataCall
    \/ TopBlobsCall

BlobsSpec == BlobsInit /\ [][BlobsNext]_vars

\* ------------------------------------------------------------ path interner
\* A PathInterner used on its own, as the unit tests of interner.rs do.
MaxInterns == 4

InternBytes == {<<"a", "/", "b">>, <<"a", "/", "c">>, <<"s">>}

InternInit ==
    /\ ScanOff
    /\ ViewIdle
    /\ ListIdle
    /\ StoreIdle
    /\ PackIdle
    /\ RebuildIdle
    /\ path_interner = <<>>
    /\ issued = <<>>

\* let id = path_interner.intern(bytes)
InternCall ==
    /\ Len(issued) < MaxInterns
    /\ \E bytes \in InternBytes :
           /\ path_interner' = intern(path_interner, bytes)
           /\ issued' = Append(issued, <<bytes, intern_id(path_interner, bytes)>>)
    /\ UNCHANGED <<scanVars, storeVars, packVars, rebuildVars, viewVars, listVars>>

InternNext == InternCall

InternSpec == InternInit /\ [][InternNext]_vars

\* ------------------------------------------------------------ pack sizes
\* load_pack_compressed_sizes on one pack.
MaxEntries == 3

MaxOffset == 4

PackOids == {"x", "y", "z"}

\* what idx.iter() may yield: entries of different objects at different
\* offsets, in any order
Indexes ==
    UNION {{e \in [1..n -> [oid : PackOids, pack_offset : 1..MaxOffset]] :
               \A i, j \in 1..n : i # j => /\ e[i].oid # e[j].oid
                                          /\ e[i].pack_offset # e[j].pack_offset} :
           n \in 0..MaxEntries}

RECURSIVE InsertByOffset(_, _)

\* e put into the sorted list after every entry whose key is not larger
InsertByOffset(sorted, e) ==
    IF sorted = <<>> THEN <<e>>
    ELSE IF sorted[1].pack_offset <= e.pack_offset
         THEN <<sorted[1]>> \o InsertByOffset(Tail(sorted), e)
         ELSE <<e>> \o sorted

\* the entries left in the order of the index
sort_by_key_skipped(entries) == entries

RECURSIVE sort_by_key(_)

\* entries.sort_by_key(|e| e.pack_offset), a stable sort
sort_by_key(entries) ==
    IF entries = <<>> THEN <<>>
    ELSE InsertByOffset(sort_by_key(SubSeq(entries, 1, Len(entries) - 1)),
                        entries[Len(entries)])

\* load_pack_compressed_sizes: the map oid -> entry_end - pack_offset
load_pack_compressed_sizes(idx_entries, end) ==
    LET entries == sort_by_key(idx_entries)
        entry_end(i) == IF i + 1 <= Len(entries) THEN entries[i + 1].pack_offset ELSE end
    IN  [o \in {entries[i].oid : i \in 1..Len(entries)} |->
            LET i == CHOOSE i \in 1..Len(entries) : entries[i].oid = o
            IN  entry_end(i) - entries[i].pack_offset]

PackInit ==
    /\ ScanOff
    /\ ViewIdle
    /\ ListIdle
    /\ StoreIdle
    /\ InternIdle
    /\ RebuildIdle
    /\ index \in Indexes
    /\ pack_end \in 1..(MaxOffset + 1)
    /\ \A i \in 1..Len(index) : index[i].pack_offset < pack_end
    /\ sizes = <<>>

\* let sizes = load_pack_compressed_sizes(idx_path, pack_path)?
LoadPackCall ==
    /\ sizes = <<>>
    /\ sizes' = <<load_pack_compressed_sizes(index, pack_end)>>
    /\ UNCHANGED <<scanVars, storeVars, internVars, rebuildVars, viewVars, listVars,
                   index, pack_end>>

PackNext == LoadPackCall

PackSpec == PackInit /\ [][PackNext]_vars

\* ------------------------------------------------------------ tree walk
\* The scan_commits loop of a first scan, on a repository that has a blob
\* without a size and a tree object that cannot be decoded.  HEAD's own tree
\* decodes, or the scan would have ended in build_head_snapshot.
WalkInit ==
    /\ StoreIdle
    /\ UnitIdle
    /\ history \in UNION {[1..n -> WideTrees] : n \in 1..MaxCommits}
    /\ ~find_tree_is_err(history[Len(history)][3])
    /\ undecodable = {}
    /\ head = Len(history)
    /\ db = EmptyDb
    /\ tx = NoTx
    /\ pc = "scan"
    /\ head_hex = head
    /\ snap = build_head_snapshot(history[head], head)
    /\ commits_to_scan = plan_commits(collect_commits(head), db.scanned_commits)
    /\ ctx = NewCtx(snap.snapshot, snap.interner, db.seen_blobs)
    /\ idx = 1
    /\ delta = None
    /\ result = None
    /\ startDb = None
    /\ attemptDb = None
    /\ retry = FALSE
    /\ killedInTx = FALSE
    /\ wrote = FALSE
    /\ walked = {}
    /\ prev = <<>>
    /\ sizedRows = [o \in BlobOids |-> 0]
    /\ metaRows = [o \in BlobOids |-> 0]

\* one iteration of the scan_commits loop; after the last one ctx.finish()
WalkCommit ==
    /\ pc = "scan"
    /\ idx <= Len(commits_to_scan)
    /\ ctx' = scan_commit(ctx, CommitInfoOf(commits_to_scan[idx]))
    /\ walked' = walked \cup {commits_to_scan[idx]}
    /\ idx' = idx + 1
    /\ IF idx = Len(commits_to_scan)
       THEN pc' = "apply" /\ delta' = ctx'.out
       ELSE pc' = pc /\ delta' = delta
    /\ UNCHANGED <<otherVars, repoVars, head, db, tx, head_hex, snap, commits_to_scan, result,
                   startDb, attemptDb, retry, killedInTx, wrote, prev, sizedRows,
                   metaRows>>

WalkNext == WalkCommit

WalkSpec == WalkInit /\ [][WalkNext]_vars

\* ------------------------------------------------------------ schema rebuild
\* init_schema statement by statement.  Every statement runs on the pool on
\* its own, outside a transaction, so the file keeps what the statements
\* executed so far wrote when the process is killed.  After init_schema the
\* process scans: apply_scan, then set_head_oid.
DomainTables == {"paths", "seen_blobs", "scanned_commits", "blobs"}

\* the tables of earlier schema versions
OldTables == {"path_stats", "path_lookup"}

\* a rebuild that writes the schema version before it drops anything
rebuild_statements_version_first(rebuild) ==
    IF rebuild
    THEN <<<<"insert", "schema_version">>,
           <<"drop", "path_stats">>, <<"drop", "path_lookup">>, <<"drop", "paths">>,
           <<"drop", "seen_blobs">>, <<"drop", "scanned_commits">>, <<"drop", "blobs">>,
           <<"delete", "metadata">>,
           <<"create", "paths">>, <<"create", "seen_blobs">>,
           <<"create", "scanned_commits">>, <<"create", "blobs">>>>
    ELSE <<<<"create", "paths">>, <<"create", "seen_blobs">>,
           <<"create", "scanned_commits">>, <<"create", "blobs">>>>

\* the statements of init_schema after the version was read
rebuild_statements(rebuild) ==
    IF rebuild
    THEN <<<<"drop", "path_stats">>, <<"drop", "path_lookup">>, <<"drop", "paths">>,
           <<"drop", "seen_blobs">>, <<"drop", "scanned_commits">>, <<"drop", "blobs">>,
           <<"delete", "metadata">>,
           <<"create", "paths">>, <<"create", "seen_blobs">>,
           <<"create", "scanned_commits">>, <<"create", "blobs">>,
           <<"insert", "schema_version">>>>
    ELSE <<<<"create", "paths">>, <<"create", "seen_blobs">>,
           <<"create", "scanned_commits">>, <<"create", "blobs">>>>

\* DROP TABLE IF EXISTS t: the rows of the store without those of t
DropTable(d, t) ==
    IF t = "paths" THEN [d EXCEPT !.paths = <<>>]
    ELSE IF t = "seen_blobs" THEN [d EXCEPT !.seen_blobs = {}]
    ELSE IF t = "scanned_commits" THEN [d EXCEPT !.scanned_commits = {}]
    ELSE IF t = "blobs" THEN [d EXCEPT !.blobs = <<>>]
    ELSE d

\* a file that does not exist yet, or a store some version of the program
\* left complete
RebuildInit ==
    /\ ScanOff
    /\ ViewIdle
    /\ ListIdle
    /\ InternIdle
    /\ PackIdle
    /\ input \in {i \in Inputs : Len(i) <= 1}
    /\ \/ /\ store = DropAll(EmptyDb)
          /\ tables = {}
       \/ /\ store = Populated(input)
          /\ tables = DomainTables \cup {"metadata"}
       \/ /\ store = [Populated(input) EXCEPT !.schema_version = <<OtherVersion>>]
          /\ tables \in {DomainTables \cup {"metadata"},
                         DomainTables \cup OldTables \cup {"metadata"}}
    /\ opened = FALSE
    /\ fed = 0
    /\ before = store
    /\ ret = <<"none">>
    /\ init_pc = "closed"
    /\ stmt = 0
    /\ needs_rebuild = FALSE
    /\ interrupted = FALSE

\* the process starts: Database::new
OpenStore ==
    /\ init_pc = "closed"
    /\ init_pc' = "create_metadata"
    /\ before' = store
    /\ UNCHANGED <<scanVars, internVars, packVars, viewVars, listVars,
                   store, opened, input, fed, ret, tables,
                   stmt, needs_rebuild, interrupted>>

\* CREATE TABLE IF NOT EXISTS metadata
CreateMetadataTable ==
    /\ init_pc = "create_metadata"
    /\ tables' = tables \cup {"metadata"}
    /\ init_pc' = "select_version"
    /\ UNCHANGED <<scanVars, internVars, packVars, viewVars, listVars,
                   storeVars, stmt, needs_rebuild,
                   interrupted>>

\* SELECT value FROM metadata WHERE key = 'schema_version'
SelectVersion ==
    /\ init_pc = "select_version"
    /\ needs_rebuild' = (store.schema_version # <<SCHEMA_VERSION>>)
    /\ stmt' = 1
    /\ init_pc' = "statements"
    /\ UNCHANGED <<scanVars, internVars, packVars, viewVars, listVars,
                   storeVars, tables, interrupted>>

\* DROP TABLE IF EXISTS ...
DropStatement ==
    /\ init_pc = "statements"
    /\ stmt <= Len(rebuild_statements(needs_rebuild))
    /\ rebuild_statements(needs_rebuild)[stmt][1] = "drop"
    /\ tables' = tables \ {rebuild_statements(needs_rebuild)[stmt][2]}
    /\ store' = DropTable(store, rebuild_statements(needs_rebuild)[stmt][2])
    /\ stmt' = stmt + 1
    /\ UNCHANGED <<scanVars, internVars, packVars, viewVars, listVars,
                   opened, input, fed, before, ret, init_pc,
                   needs_rebuild, interrupted>>

\* DELETE FROM metadata
DeleteStatement ==
    /\ init_pc = "statements"
    /\ stmt <= Len(rebuild_statements(needs_rebuild))
    /\ rebuild_statements(needs_rebuild)[stmt][1] = "delete"
    /\ store' = [store EXCEPT !.schema_version = <<>>, !.head_oid = <<>>]
    /\ stmt' = stmt + 1
    /\ UNCHANGED <<scanVars, internVars, packVars, viewVars, listVars,
                   opened, input, fed, before, ret, tables,
                   init_pc, needs_rebuild, interrupted>>

\* CREATE TABLE IF NOT EXISTS ...
CreateStatement ==
    /\ init_pc = "statements"
    /\ stmt <= Len(rebuild_statements(needs_rebuild))
    /\ rebuild_statements(needs_rebuild)[stmt][1] = "create"
    /\ tables' = tables \cup {rebuild_statements(needs_rebuild)[stmt][2]}
    /\ stmt' = stmt + 1
    /\ UNCHANGED <<scanVars, internVars, packVars, viewVars, listVars,
                   storeVars, init_pc, needs_rebuild,
                   interrupted>>

\* INSERT OR REPLACE INTO metadata (key, value) VALUES ('schema_version', ?)
InsertVersionStatement ==
    /\ init_pc = "statements"
    /\ stmt <= Len(rebuild_statements(needs_rebuild))
    /\ rebuild_statements(needs_rebuild)[stmt][1] = "insert"
    /\ store' = [store EXCEPT !.schema_version = <<SCHEMA_VERSION>>]
    /\ stmt' = stmt + 1
    /\ UNCHANGED <<scanVars, internVars, packVars, viewVars, listVars,
                   opened, input, fed, before, ret, tables,
                   init_pc, needs_rebuild, interrupted>>

\* Ok(needs_rebuild)
ReturnInitSchema ==
    /\ init_pc = "statements"
    /\ stmt > Len(rebuild_statements(needs_rebuild))
    /\ ret' = <<"init_schema", needs_rebuild>>
    /\ opened' = TRUE
    /\ init_pc' = "ready"
    /\ UNCHANGED <<scanVars, internVars, packVars, viewVars, listVars,
                   store, input, fed, before, tables, stmt,
                   needs_rebuild, interrupted>>

\* the scan applies its delta and marks its commit
ApplyScanStep ==
    /\ init_pc = "ready"
    /\ 1 \notin store.scanned_commits
    /\ store' = apply_scan_with_callback(store, input, MetaOf(input), <<1>>)
    /\ init_pc' = "applied"
    /\ interrupted' = FALSE
    /\ ret' = <<"apply_scan">>
    /\ UNCHANGED <<scanVars, internVars, packVars, viewVars, listVars,
                   opened, input, fed, before, tables, stmt,
                   needs_rebuild>>

\* the scan persists the cursor: after apply_scan, or with nothing left to scan
SetHeadStep ==
    /\ \/ init_pc = "applied"
       \/ init_pc = "ready" /\ 1 \in store.scanned_commits /\ store.head_oid # <<1>>
    /\ store' = set_head_oid(store, 1)
    /\ init_pc' = "ready"
    /\ interrupted' = FALSE
    /\ ret' = <<"set_metadata">>
    /\ UNCHANGED <<scanVars, internVars, packVars, viewVars, listVars,
                   opened, input, fed, before, tables, stmt,
                   needs_rebuild>>

\* the process ends, killed or not, wherever it is
ProcessEnds ==
    /\ init_pc # "closed"
    /\ init_pc' = "closed"
    /\ opened' = FALSE
    /\ interrupted' = IF init_pc = "statements"
                      THEN needs_rebuild /\ store.schema_version # <<SCHEMA_VERSION>>
                      ELSE IF init_pc \in {"create_metadata", "select_version"}
                      THEN interrupted
                      ELSE FALSE
    /\ UNCHANGED <<scanVars, internVars, packVars, viewVars, listVars,
                   store, input, fed, before, ret, tables,
                   stmt, needs_rebuild>>

RebuildNext ==
    \/ OpenStore
    \/ CreateMetadataTable
    \/ SelectVersion
    \/ DropStatement
    \/ DeleteStatement
    \/ CreateStatement
    \/ InsertVersionStatement
    \/ ReturnInitSchema
    \/ ApplyScanStep
    \/ SetHeadStep
    \/ ProcessEnds

RebuildSpec == RebuildInit /\ [][RebuildNext]_vars

\* ------------------------------------------------------------ plan
\* The plan phase of a scan on a store whose scanned set is any set of
\* commits: in a repository with branches the commits scanned earlier need
\* not be the oldest ones of the list collected from HEAD.
PlanInit ==
    /\ StoreIdle
    /\ UnitIdle
    /\ history \in Histories
    /\ undecodable = {}
    /\ head \in 1..Len(history)
    /\ db \in {[EmptyDb EXCEPT !.scanned_commits = sc] : sc \in SUBSET (1..Len(history))}
    /\ tx = NoTx
    /\ pc = "plan"
    /\ head_hex = head
    /\ snap = None
    /\ commits_to_scan = <<>>
    /\ ctx = None
    /\ idx = 0
    /\ delta = None
    /\ result = None
    /\ startDb = None
    /\ attemptDb = None
    /\ retry = FALSE
    /\ killedInTx = FALSE
    /\ wrote = FALSE
    /\ walked = {}
    /\ prev = <<>>
    /\ sizedRows = [o \in BlobOids |-> 0]
    /\ metaRows = [o \in BlobOids |-> 0]

PlanNext == Plan

PlanSpec == PlanInit /\ [][PlanNext]_vars

\* ------------------------------------------------------------ viewmodel/selection.rs
\* Selectable::move_up: the new selection of a list of len items
move_up(len, selected) ==
    IF len = 0 THEN 0
    ELSE IF selected = 0 THEN len - 1 ELSE selected - 1

\* a move_down that stops at the last item
move_down_clamped(len, selected) ==
    IF len = 0 THEN 0
    ELSE IF selected + 1 >= len THEN selected ELSE selected + 1

\* Selectable::move_down
move_down(len, selected) ==
    IF len = 0 THEN 0
    ELSE IF selected + 1 >= len THEN 0 ELSE selected + 1

\* slice::sort_by(|a, b| key(b).cmp(&key(a))): items in descending order of
\* keys (keys[i] is the key of items[i]); the sort is stable
SortDescBy(items, keys) ==
    LET rank(i) == 1 + Cardinality({j \in 1..Len(items) :
                        keys[j] > keys[i] \/ (keys[j] = keys[i] /\ j < i)})
    IN  [p \in 1..Len(items) |-> items[CHOOSE i \in 1..Len(items) : rank(i) = p]]

\* ------------------------------------------------------------ viewmodel/tree_viewmodel.rs
\* TreeViewModel::new
NewTreeViewModel(root) ==
    [root |-> root, path_stack |-> <<>>, selected_index |-> 0,
     show_deleted_only |-> FALSE, total_cumulative |-> root.cumulative_size,
     cache |-> [children |-> <<>>, dirty |-> TRUE]]

RECURSIVE WalkDown(_, _)

\* the loop of current_node: a name with no child of that name is skipped
WalkDown(node, names) ==
    IF names = <<>> THEN node
    ELSE IF names[1] \in DOMAIN node.children
         THEN WalkDown(node.children[names[1]], Tail(names))
         ELSE WalkDown(node, Tail(names))

\* TreeViewModel::current_node
current_node(vm) == WalkDown(vm.root, vm.path_stack)

\* an invalidate that keeps the selection
invalidate_keep_selection(vm) ==
    [vm EXCEPT !.cache.dirty = TRUE]

\* TreeViewModel::invalidate
invalidate(vm) ==
    [vm EXCEPT !.cache.dirty = TRUE, !.selected_index = 0]

\* TreeViewModel::ensure_children; the view model with its cache filled
ensure_children(vm) ==
    IF ~vm.cache.dirty THEN vm
    ELSE LET current == current_node(vm)
             shown == SelectSeq(InSomeOrder(DOMAIN current.children),
                          LAMBDA k : \/ ~vm.show_deleted_only
                                     \/ current.children[k].has_deleted_descendants)
             views == [i \in 1..Len(shown) |->
                         LET node == current.children[shown[i]]
                         IN  [name |-> node.name,
                              display_size |-> IF vm.show_deleted_only
                                               THEN node.deleted_size
                                               ELSE node.cumulative_size,
                              current_size |-> node.current_size,
                              has_children |-> DOMAIN node.children # {}]]
         IN  [vm EXCEPT !.cache =
                 [children |-> SortDescBy(views, [i \in 1..Len(views) |->
                                                     views[i].display_size]),
                  dirty |-> FALSE]]

\* TreeViewModel::visible_children
visible_children(vm) == ensure_children(vm).cache.children

\* TreeViewModel::enter_selected
enter_selected(vm) ==
    LET filled == ensure_children(vm)
        children == filled.cache.children
        at == filled.selected_index + 1
    IN  IF at <= Len(children) /\ children[at].has_children
        THEN invalidate([filled EXCEPT !.path_stack = Append(@, children[at].name)])
        ELSE filled

\* TreeViewModel::go_back: the view model and the returned bool
go_back(vm) ==
    IF vm.path_stack = <<>>
    THEN [vm |-> vm, ret |-> FALSE]
    ELSE [vm |-> invalidate([vm EXCEPT !.path_stack = SubSeq(@, 1, Len(@) - 1)]),
          ret |-> TRUE]

\* TreeViewModel::toggle_deleted_only
toggle_deleted_only(vm) ==
    invalidate([vm EXCEPT !.show_deleted_only = ~@])

\* TreeViewModel::navigate_to_path
navigate_to_path(vm, path) ==
    LET parts == Split(path, <<>>)
    IN  IF Len(parts) > 1
        THEN invalidate([vm EXCEPT !.path_stack = SubSeq(parts, 1, Len(parts) - 1)])
        ELSE vm

\* ------------------------------------------------------------ viewmodel/extension_viewmodel.rs
\* str::to_lowercase on the letters the view model is given
to_lowercase(s) ==
    [i \in 1..Len(s) |-> CASE s[i] = "R" -> "r"
                           [] s[i] = "P" -> "p"
                           [] OTHER -> s[i]]

RECURSIVE leaf_nodes_loop(_, _)

\* the `while let Some(node) = stack.pop()` loop of visit_leaf_nodes
leaf_nodes_loop(stack, visited) ==
    IF stack = <<>> THEN visited
    ELSE LET node == stack[Len(stack)]
             popped == SubSeq(stack, 1, Len(stack) - 1)
             order == InSomeOrder(DOMAIN node.children)
         IN  IF DOMAIN node.children = {}
             THEN leaf_nodes_loop(popped, Append(visited, node))
             ELSE leaf_nodes_loop(popped \o [k \in 1..Len(order) |->
                                                node.children[order[k]]], visited)

\* TreeNode::visit_leaf_nodes: the nodes f is called with
visit_leaf_nodes(root) ==
    LET order == InSomeOrder(DOMAIN root.children)
    IN  leaf_nodes_loop([k \in 1..Len(order) |-> root.children[order[k]]], <<>>)

\* the `ext` of compute_stats for a leaf of this name
ExtensionOf(name) ==
    LET dots == {i \in 1..Len(name) : name[i] = "."}
        last == CHOOSE i \in dots : \A j \in dots : j <= i
        e == SubSeq(name, last + 1, Len(name))
    IN  IF dots # {} /\ e # <<>> /\ Len(e) <= 10 /\ \A i \in 1..Len(e) : e[i] # "/"
        THEN <<".">> \o to_lowercase(e)
        ELSE <<"(no ext)">>

\* ExtensionViewModel::compute_stats
compute_stats(root) ==
    LET leaves == visit_leaf_nodes(root)
        of(ext) == {i \in 1..Len(leaves) : ExtensionOf(leaves[i].name) = ext}
        exts == InSomeOrder({ExtensionOf(leaves[i].name) : i \in 1..Len(leaves)})
        stats == [k \in 1..Len(exts) |->
                     [extension |-> exts[k],
                      cumulative_size |-> SumOver(of(exts[k]), [i \in 1..Len(leaves) |->
                                              leaves[i].cumulative_size]),
                      current_size |-> SumOver(of(exts[k]), [i \in 1..Len(leaves) |->
                                              leaves[i].current_size]),
                      file_count |-> SumOver(of(exts[k]), [i \in 1..Len(leaves) |->
                                              leaves[i].blob_count])]]
    IN  SortDescBy(stats, [k \in 1..Len(stats) |-> stats[k].cumulative_size])

\* ExtensionViewModel::new
NewExtensionViewModel(root) ==
    [stats |-> compute_stats(root), selected_index |-> 0]

\* ------------------------------------------------------------ viewmodel/search_viewmodel.rs
\* SearchViewModel::new; a result's index counts entries from 1
NewSearchViewModel(root) ==
    LET visited == visit_leaves(root)
    IN  [query |-> <<>>, results |-> <<>>, selected_index |-> 0,
         entries |-> [i \in 1..Len(visited) |->
                        [path |-> visited[i][1],
                         path_lower |-> to_lowercase(visited[i][1]),
                         cumulative_size |-> visited[i][2].cumulative_size,
                         current_size |-> visited[i][2].current_size]],
         total_cumulative |-> root.cumulative_size]

RECURSIVE match_indices(_, _, _)

\* str::match_indices from character `start` on: the byte ranges of the
\* matches of a query that is not empty, leftmost first, none overlapping
match_indices(text, query, start) ==
    IF start + Len(query) - 1 > Len(text) THEN <<>>
    ELSE IF SubSeq(text, start, start + Len(query) - 1) = query
         THEN <<<<start - 1, start - 1 + Len(query)>>>>
              \o match_indices(text, query, start + Len(query))
         ELSE match_indices(text, query, start + 1)

\* find_matches
find_matches(text, query) == match_indices(text, query, 1)

\* a clear that leaves the query as typed
clear_keep_query(svm) ==
    [svm EXCEPT !.results = <<>>, !.selected_index = 0]

\* SearchViewModel::clear
clear(svm) ==
    [svm EXCEPT !.query = <<>>, !.results = <<>>, !.selected_index = 0]

\* SearchViewModel::update_results
update_results(svm) ==
    IF svm.query = <<>>
    THEN [svm EXCEPT !.results = <<>>, !.selected_index = 0]
    ELSE LET query_lower == to_lowercase(svm.query)
             hits == SelectSeq([i \in 1..Len(svm.entries) |-> i],
                         LAMBDA i : find_matches(svm.entries[i].path_lower,
                                                 query_lower) # <<>>)
             matched == [k \in 1..Len(hits) |->
                           [index |-> hits[k],
                            matches |-> find_matches(svm.entries[hits[k]].path_lower,
                                                     query_lower)]]
             sorted == SortDescBy(matched, [k \in 1..Len(hits) |->
                                     svm.entries[hits[k]].cumulative_size])
         IN  [svm EXCEPT !.results = SubSeq(sorted, 1, IF Len(sorted) > 100
                                                       THEN 100 ELSE Len(sorted)),
                         !.selected_index = 0]

\* SearchViewModel::add_char
add_char(svm, c) == update_results([svm EXCEPT !.query = Append(@, c)])

\* SearchViewModel::backspace
backspace(svm) ==
    update_results([svm EXCEPT !.query = IF @ = <<>> THEN @
                                         ELSE SubSeq(@, 1, Len(@) - 1)])

\* SearchViewModel::selected_path, as <<path>> or <<>>
search_selected_path(svm) ==
    IF svm.selected_index + 1 <= Len(svm.results)
    THEN <<svm.entries[svm.results[svm.selected_index + 1].index].path>>
    ELSE <<>>

\* ------------------------------------------------------------ viewmodel/blobs_viewmodel.rs
\* BlobsViewModel::new
NewBlobsViewModel(blobs, total_cumulative) ==
    [blobs |-> blobs, selected_index |-> 0, total_cumulative |-> total_cumulative]

\* BlobsViewModel::selected_path, as <<path>> or <<>>
blobs_selected_path(bvm) ==
    IF bvm.selected_index + 1 <= Len(bvm.blobs)
    THEN <<bvm.blobs[bvm.selected_index + 1].path>>
    ELSE <<>>

\* ------------------------------------------------------------ viewmodel/app_viewmodel.rs
\* AppViewModel::new
NewApp(root, large_blobs) ==
    [view_mode |-> "Tree",
     tree_vm |-> NewTreeViewModel(root),
     extension_vm |-> NewExtensionViewModel(root),
     search_vm |-> NewSearchViewModel(root),
     blobs_vm |-> NewBlobsViewModel(large_blobs, root.cumulative_size)]

\* AppViewModel::move_up_current; TreeViewModel's len() fills its cache
move_up_current(a) ==
    CASE a.view_mode = "Tree" ->
           LET filled == ensure_children(a.tree_vm)
           IN  [a EXCEPT !.tree_vm = [filled EXCEPT !.selected_index =
                                         move_up(Len(filled.cache.children), @)]]
      [] a.view_mode = "ByExtension" ->
           [a EXCEPT !.extension_vm.selected_index =
                         move_up(Len(a.extension_vm.stats), @)]
      [] a.view_mode = "LargeBlobs" ->
           [a EXCEPT !.blobs_vm.selected_index = move_up(Len(a.blobs_vm.blobs), @)]
      [] a.view_mode = "Search" ->
           [a EXCEPT !.search_vm.selected_index = move_up(Len(a.search_vm.results), @)]

\* AppViewModel::move_down_current
move_down_current(a) ==
    CASE a.view_mode = "Tree" ->
           LET filled == ensure_children(a.tree_vm)
           IN  [a EXCEPT !.tree_vm = [filled EXCEPT !.selected_index =
                                         move_down(Len(filled.cache.children), @)]]
      [] a.view_mode = "ByExtension" ->
           [a EXCEPT !.extension_vm.selected_index =
                         move_down(Len(a.extension_vm.stats), @)]
      [] a.view_mode = "LargeBlobs" ->
           [a EXCEPT !.blobs_vm.selected_index = move_down(Len(a.blobs_vm.blobs), @)]
      [] a.view_mode = "Search" ->
           [a EXCEPT !.search_vm.selected_index =
                         move_down(Len(a.search_vm.results), @)]

\* AppViewModel::enter_current
enter_current(a) ==
    CASE a.view_mode = "Tree" -> [a EXCEPT !.tree_vm = enter_selected(@)]
      [] a.view_mode = "LargeBlobs" ->
           LET path == blobs_selected_path(a.blobs_vm)
           IN  IF path # <<>>
               THEN [a EXCEPT !.tree_vm = navigate_to_path(@, path[1]),
                              !.view_mode = "Tree"]
               ELSE a
      [] a.view_mode = "Search" ->
           LET path == search_selected_path(a.search_vm)
           IN  IF path # <<>>
               THEN [a EXCEPT !.tree_vm = navigate_to_path(@, path[1]),
                              !.search_vm = clear(@),
                              !.view_mode = "Tree"]
               ELSE a
      [] a.view_mode = "ByExtension" -> a

\* AppViewModel::handle_intent: the view model and the returned Action
handle_intent(a, i) ==
    CASE i[1] = "Quit" -> [app |-> a, action |-> "Quit"]
      [] i[1] = "ShowTree" ->
           [app |-> [(IF a.view_mode = "Search"
                      THEN [a EXCEPT !.search_vm = clear(@)]
                      ELSE a) EXCEPT !.view_mode = "Tree"],
            action |-> "Redraw"]
      [] i[1] = "ShowExtensions" ->
           [app |-> [a EXCEPT !.view_mode = "ByExtension"], action |-> "Redraw"]
      [] i[1] = "ShowLargeBlobs" ->
           [app |-> [a EXCEPT !.view_mode = "LargeBlobs"], action |-> "Redraw"]
      [] i[1] = "EnterSearch" ->
           [app |-> [a EXCEPT !.search_vm = clear(@), !.view_mode = "Search"],
            action |-> "Redraw"]
      [] i[1] = "MoveUp" -> [app |-> move_up_current(a), action |-> "Redraw"]
      [] i[1] = "MoveDown" -> [app |-> move_down_current(a), action |-> "Redraw"]
      [] i[1] = "Enter" -> [app |-> enter_current(a), action |-> "Redraw"]
      [] i[1] = "Back" ->
           [app |-> IF a.view_mode = "Tree"
                    THEN [a EXCEPT !.tree_vm = go_back(@).vm]
                    ELSE a,
            action |-> "Redraw"]
      [] i[1] = "ToggleDeletedOnly" ->
           [app |-> IF a.view_mode = "Tree"
                    THEN [a EXCEPT !.tree_vm = toggle_deleted_only(@)]
                    ELSE a,
            action |-> "Redraw"]
      [] i[1] = "SearchChar" ->
           [app |-> IF a.view_mode = "Search"
                    THEN [a EXCEPT !.search_vm = add_char(@, i[2])]
                    ELSE a,
            action |-> "Redraw"]
      [] i[1] = "SearchBackspace" ->
           [app |-> IF a.view_mode = "Search"
                    THEN [a EXCEPT !.search_vm = backspace(@)]
                    ELSE a,
            action |-> "Redraw"]

\* ------------------------------------------------------------ the terminal UI
\* The event loop of main.rs on a loaded tree: draw, read a key, handle the
\* intent it maps to, until Quit.
MaxQuery == 1

SearchChars == {"R", "/", "q"}

Intents ==
    {<<n>> : n \in {"Quit", "ShowTree", "ShowExtensions", "ShowLargeBlobs",
                    "EnterSearch", "MoveUp", "MoveDown", "Enter", "Back",
                    "ToggleDeletedOnly", "SearchBackspace"}}
    \cup {<<"SearchChar", c>> : c \in SearchChars}

\* the tree of a scanned repository: s/m.r, s/t/u, a/g.P (deleted), a/i.p and R
ViewTree ==
    LET n0 == NewNode(<<"(root)">>)
        n1 == add_path_with_sizes(n0, <<<<"s">>, <<"m", ".", "r">>>>, 10, 5, 1)
        n3 == add_path_with_sizes(n1, <<<<"s">>, <<"t">>, <<"u">>>>, 3, 3, 1)
        n4 == add_path_with_sizes(n3, <<<<"a">>, <<"g", ".", "P">>>>, 50, 0, 1)
        n5 == add_path_with_sizes(n4, <<<<"a">>, <<"i", ".", "p">>>>, 20, 20, 1)
        n6 == add_path_with_sizes(n5, <<<<"R">>>>, 1, 1, 1)
    IN  compute_totals(n6)

\* what get_top_blobs returned for it
ViewBlobs ==
    <<[oid |-> "x", size |-> 3, path |-> <<"s", "/", "t", "/", "u">>],
      [oid |-> "y", size |-> 1, path |-> <<"R">>]>>

ViewInit ==
    /\ ScanOff
    /\ StoreIdle
    /\ InternIdle
    /\ PackIdle
    /\ RebuildIdle
    /\ ListIdle
    /\ \E loaded \in {<<ViewTree, ViewBlobs>>,
                      <<compute_totals(NewNode(<<"(root)">>)), <<>>>>} :
           app = NewApp(loaded[1], loaded[2])
    /\ action = "none"
    /\ intent = <<>>

\* terminal.draw: render_tree asks the tree view model for its children
Render ==
    /\ action # "Quit"
    /\ app.view_mode = "Tree"
    /\ app.tree_vm.cache.dirty
    /\ app' = [app EXCEPT !.tree_vm = ensure_children(@)]
    /\ UNCHANGED <<scanVars, storeVars, internVars, packVars, rebuildVars, listVars,
                   action, intent>>

\* match app.handle_intent(intent) { Action::Quit => break, ... }
HandleIntent ==
    /\ action # "Quit"
    /\ \E i \in Intents :
           /\ i[1] = "SearchChar" => Len(app.search_vm.query) < MaxQuery
           /\ app' = handle_intent(app, i).app
           /\ action' = handle_intent(app, i).action
           /\ intent' = i
    /\ UNCHANGED <<scanVars, storeVars, internVars, packVars, rebuildVars, listVars>>

ViewNext == Render \/ HandleIntent

ViewSpec == ViewInit /\ [][ViewNext]_vars

\* ------------------------------------------------------------ a Selectable list
\* A list with a selection, built and moved as the tests of selection.rs do.
MaxItems == 4

MaxSelected == 7

ListInit ==
    /\ ScanOff
    /\ StoreIdle
    /\ InternIdle
    /\ PackIdle
    /\ RebuildIdle
    /\ ViewIdle
    /\ \E n \in 0..MaxItems : \E s \in 0..MaxSelected :
           test_list = [items |-> [k \in 1..n |-> k], selected_index |-> s]
    /\ list_op = "none"
    /\ list_before = test_list

\* list.move_up()
MoveUpCall ==
    /\ test_list' = [test_list EXCEPT !.selected_index =
                        move_up(Len(test_list.items), @)]
    /\ list_op' = "move_up"
    /\ list_before' = test_list
    /\ UNCHANGED <<scanVars, storeVars, internVars, packVars, rebuildVars, viewVars>>

\* list.move_down()
MoveDownCall ==
    /\ test_list' = [test_list EXCEPT !.selected_index =
                        move_down(Len(test_list.items), @)]
    /\ list_op' = "move_down"
    /\ list_before' = test_list
    /\ UNCHANGED <<scanVars, storeVars, internVars, packVars, rebuildVars, viewVars>>

ListNext == MoveUpCall \/ MoveDownCall

ListSpec == ListInit /\ [][ListNext]_vars

\* ------------------------------------------------------------ claims

\* C1: a scan with HEAD at the end of a prefix of the history, then a scan with
\* HEAD at the end of the whole history, leaves the paths rows of a single scan
\* of the whole history on an empty store, and every commit in scanned_commits.
C1_AdditiveAcrossScans ==
    (/\ pc = "done"
     /\ undecodable = {}
     /\ startDb.head_oid # <<>>
     /\ startDb.head_oid # <<head_hex>>
     /\ startDb = UninterruptedScan(EmptyDb, startDb.head_oid[1]))
    => (/\ db.paths = UninterruptedScan(EmptyDb, head_hex).paths
        /\ db.scanned_commits = 1..head_hex)

\* C2: when an attempt at a scan was killed (or failed), the next scan that runs
\* to completion on the same repository leaves paths, blobs and scanned_commits
\* as one uninterrupted scan from the store the first attempt began with.
C2_CrashSafe ==
    (pc = "done" /\ retry)
    => LET u == UninterruptedScan(attemptDb, head_hex)
       IN  /\ db.paths = u.paths
           /\ db.blobs = u.blobs
           /\ db.scanned_commits = u.scanned_commits

\* a scan completed and changed paths after an attempt was killed inside apply_scan
C2_Witness ==
    /\ pc = "done"
    /\ retry
    /\ killedInTx
    /\ db.paths # attemptDb.paths

\* C3: a scan run again for an unchanged HEAD after a returned scan walks no
\* commit, issues no store write, leaves the store as the first scan left it and
\* returns the same tree.
C3_Idempotent ==
    (pc = "done" /\ prev # <<>>)
    => (/\ prev[1].head = head_hex
        /\ db = prev[1].db
        /\ result = prev[1].tree
        /\ ~wrote
        /\ walked = {}
        /\ commits_to_scan = <<>>)

\* a second scan of a non-empty store has returned its tree
C3_Witness ==
    /\ pc = "done"
    /\ prev # <<>>
    /\ DOMAIN db.paths # {}
    /\ DOMAIN result.children # {}

\* C4: every step leaves the four data tables as they were or (the commit of
\* apply_scan) applies all rows and all commit markers of the call; while the
\* transaction is open nothing of the call is visible, after it everything is.
C4_ApplyScanAtomic ==
    [][/\ \/ DataOf(db') = DataOf(db)
          \/ /\ pc = "tx_commit"
             /\ DataOf(db') = DataOf(AppliedAll(db, delta, ctx.interner, commits_to_scan))
       /\ pc' \in TxPcs =>
             /\ DataOf(db') = DataOf(startDb')
             /\ \A k \in 1..Len(commits_to_scan') :
                    commits_to_scan'[k] \notin db'.scanned_commits
       /\ pc' = "set_head" =>
             /\ \A k \in 1..Len(commits_to_scan') :
                    commits_to_scan'[k] \in db'.scanned_commits
             /\ \A k \in 1..Len(delta'.blobs) :
                    /\ delta'.blobs[k].oid \in db'.seen_blobs
                    /\ get_str(ctx'.interner, delta'.blobs[k].path_id) \in DOMAIN db'.paths
             /\ \A k \in 1..Len(delta'.metadata) :
                    delta'.metadata[k].oid \in DOMAIN db'.blobs
      ]_vars

\* apply_scan committed a call that has rows and commits
C4_Witness ==
    /\ pc = "set_head"
    /\ delta.blobs # <<>>
    /\ delta.metadata # <<>>
    /\ db.paths # startDb.paths

\* C5: in a run with commits to scan the cursor is written only once apply_scan
\* has committed; when apply_scan fails the scan returns the error and the
\* store is as it was when the scan began.
C5_HeadAfterApply ==
    [][/\ (commits_to_scan # <<>> /\ db'.head_oid # db.head_oid)
             => /\ tx = NoTx
                /\ DataOf(db) = DataOf(AppliedAll(startDb, delta, ctx.interner,
                                                  commits_to_scan))
       /\ (pc' = "error" /\ pc \in TxPcs \cup {"apply"})
             => /\ db' = startDb
                /\ result' = <<"err", pc>>
                /\ tx' = NoTx
      ]_vars

\* apply_scan failed after its rows were written inside the transaction
C5_Witness ==
    /\ pc = "error"
    /\ result = <<"err", "tx_mark">>
    /\ delta.blobs # <<>>
    /\ db = startDb

\* C6: a commit that fails to decode during a scan is not in scanned_commits
\* when the scan is done, and the next plan contains it again.
C6_UndecodableRetried ==
    pc = "done" =>
        \A k \in 1..Len(commits_to_scan) :
            commits_to_scan[k] \in undecodable =>
                /\ commits_to_scan[k] \notin db.scanned_commits
                /\ \E j \in 1..Len(plan_commits(collect_commits(head_hex), db.scanned_commits)) :
                       plan_commits(collect_commits(head_hex), db.scanned_commits)[j]
                           = commits_to_scan[k]

\* C7: after every completed scan the current_size of each path is the size of
\* the blob HEAD holds at that path, and 0 when HEAD holds none there.
C7_CurrentSizeIsHead ==
    (pc = "done" /\ undecodable = {}) =>
        \A p \in DOMAIN db.paths :
            db.paths[p].current_size =
                (IF BlobAt(history[head_hex], p) \in BlobOids
                 THEN size_of(BlobAt(history[head_hex], p))
                 ELSE 0)

\* C8: no oid ever gets a second persisted BlobRow carrying its size nor a
\* second persisted BlobMetaRow; an oid that is in seen_blobs when the scan
\* begins, or has a row earlier in the delta, has cumulative_size 0 in its rows;
\* a blobs row is never changed once written.
C8_OneSizedRowPerOid ==
    [][/\ \A o \in BlobOids : sizedRows'[o] <= 1 /\ metaRows'[o] <= 1
       /\ \A o \in DOMAIN db.blobs : o \in DOMAIN db'.blobs /\ db'.blobs[o] = db.blobs[o]
       /\ pc' = "apply" =>
             \A k \in 1..Len(delta'.blobs) :
                 (\/ delta'.blobs[k].oid \in startDb'.seen_blobs
                  \/ \E j \in 1..(k - 1) : delta'.blobs[j].oid = delta'.blobs[k].oid)
                 => /\ delta'.blobs[k].cumulative_size = 0
                    /\ \A m \in 1..Len(delta'.metadata) :
                           delta'.metadata[m].oid # delta'.blobs[k].oid
                              \/ delta'.blobs[k].oid \notin startDb'.seen_blobs
      ]_vars

\* a scan persisted a zero-cumulative row for a blob the store had seen before
C8_Witness ==
    /\ pc = "set_head"
    /\ \E k \in 1..Len(delta.blobs) :
           /\ delta.blobs[k].oid \in startDb.seen_blobs
           /\ delta.blobs[k].cumulative_size = 0
    /\ \E o \in BlobOids : sizedRows[o] = 1 /\ metaRows[o] = 1

\* commits of the running scan that decode, oldest first
WalkedCommits == {commits_to_scan[k] : k \in 1..Len(commits_to_scan)} \ undecodable

\* the (path index, oid) pairs the trees of the walked commits hold
WalkedPairs ==
    {po \in (1..Len(AllPaths)) \X BlobOids :
        \E c \in WalkedCommits : BlobAt(history[c], AllPaths[po[1]]) = po[2]}

\* the first walked commit that holds oid o at path index i
FirstCommitOfPair(i, o) ==
    CHOOSE c \in WalkedCommits :
        /\ BlobAt(history[c], AllPaths[i]) = o
        /\ \A c2 \in WalkedCommits : BlobAt(history[c2], AllPaths[i]) = o => c <= c2

\* the pair is the first place the walk meets oid o, and no earlier scan saw o
PairIsNew(i, o) ==
    /\ o \notin startDb.seen_blobs
    /\ \A po \in WalkedPairs :
          po[2] = o =>
              \/ FirstCommitOfPair(i, o) < FirstCommitOfPair(po[1], o)
              \/ FirstCommitOfPair(i, o) = FirstCommitOfPair(po[1], o) /\ i <= po[1]

\* the size HEAD holds at the path when it holds oid o there, else 0
PairCurrent(i, o) ==
    IF BlobAt(history[head_hex], AllPaths[i]) = o THEN size_of(o) ELSE 0

ExpectedBlobRows ==
    {[oid |-> po[2], path |-> AllPaths[po[1]],
      cumulative_size |-> IF PairIsNew(po[1], po[2]) THEN size_of(po[2]) ELSE 0,
      current_size |-> PairCurrent(po[1], po[2])] :
        po \in {q \in WalkedPairs : PairIsNew(q[1], q[2]) \/ PairCurrent(q[1], q[2]) > 0}}

ExpectedMetaRows ==
    {[oid |-> po[2], size |-> size_of(po[2]), path |-> AllPaths[po[1]],
      author |-> CommitAuthor(FirstCommitOfPair(po[1], po[2])),
      timestamp |-> CommitSeconds(FirstCommitOfPair(po[1], po[2]))] :
        po \in {q \in WalkedPairs : PairIsNew(q[1], q[2])}}

SeqToSet(q) == {q[k] : k \in 1..Len(q)}

\* C9: the delta of a run holds, for every (path, oid) pair of the walked
\* trees, once: a BlobRow with the size and a BlobMetaRow with the commit's
\* author and time when the oid is new; only a BlobRow with cumulative_size 0
\* when the oid was seen and HEAD holds it at that path; nothing otherwise.
C9_EmissionTable ==
    pc = "apply" =>
        /\ SeqToSet(BlobsForDb(delta, ctx.interner)) = ExpectedBlobRows
        /\ Len(delta.blobs) = Cardinality(ExpectedBlobRows)
        /\ SeqToSet(MetadataForDb(delta, ctx.interner)) = ExpectedMetaRows
        /\ Len(delta.metadata) = Cardinality(ExpectedMetaRows)

\* a delta with the row pair of a new blob and the single row of a blob that
\* was seen before and that HEAD holds at the path
C9_Witness ==
    /\ pc = "apply"
    /\ delta.metadata # <<>>
    /\ \E k \in 1..Len(delta.blobs) :
           /\ delta.blobs[k].cumulative_size = 0
           /\ delta.blobs[k].current_size > 0

\* commits of the whole history whose tree holds oid o
CommitsHolding(o) ==
    {c \in 1..Len(history) : \E i \in 1..Len(AllPaths) : BlobAt(history[c], AllPaths[i]) = o}

Earliest(S) == CHOOSE c \in S : \A c2 \in S : c <= c2

\* C10 as stated: first_author and first_date of every blobs row are those of
\* the earliest commit whose tree holds the oid.
C10_FirstAuthorOfEarliest ==
    \A o \in DOMAIN db.blobs :
        /\ db.blobs[o].first_author = CommitAuthor(Earliest(CommitsHolding(o)))
        /\ db.blobs[o].first_date = CommitSeconds(Earliest(CommitsHolding(o)))

\* C10 amended: first_author and first_date of every blobs row are those of
\* the earliest commit that decodes and whose tree holds the oid.
C10_FirstAuthorOfEarliestDecoded ==
    \A o \in DOMAIN db.blobs :
        /\ CommitsHolding(o) \ undecodable # {}
        /\ db.blobs[o].first_author = CommitAuthor(Earliest(CommitsHolding(o) \ undecodable))
        /\ db.blobs[o].first_date = CommitSeconds(Earliest(CommitsHolding(o) \ undecodable))

\* after an incremental scan the store holds a blob that two decodable commits
\* of different authors hold, the later one scanned by the later scan
C10_Witness ==
    /\ pc = "done"
    /\ startDb.scanned_commits # {}
    /\ walked # {}
    /\ \E o \in DOMAIN db.blobs :
           \E c1 \in startDb.scanned_commits \ undecodable, c2 \in walked :
               /\ c1 \in CommitsHolding(o)
               /\ c2 \in CommitsHolding(o)
               /\ CommitAuthor(c1) # CommitAuthor(c2)

\* the commits reachable from the HEAD the running scan resolved
ReachableCommits == {collect_commits(head_hex)[k] : k \in 1..Len(collect_commits(head_hex))}

\* the running scan began with a cursor other than HEAD and every reachable
\* commit already scanned
NothingLeftToScan ==
    /\ startDb.head_oid # <<head_hex>>
    /\ ReachableCommits \subseteq startDb.scanned_commits

\* C11: a scan that starts with a cursor other than HEAD while every reachable
\* commit is already scanned walks no commit, leaves paths, blobs, seen_blobs
\* and scanned_commits as they were, sets the cursor to HEAD and returns the
\* tree loaded from the store.
C11_EmptyPlanOnlyCursor ==
    (pc = "done" /\ NothingLeftToScan) =>
        /\ DataOf(db) = DataOf(startDb)
        /\ db.head_oid = <<head_hex>>
        /\ walked = {}
        /\ result = load_tree(db)

\* a scan returned through the empty plan on a store that holds rows
C11_Witness ==
    /\ pc = "done"
    /\ NothingLeftToScan
    /\ commits_to_scan = <<>>
    /\ DOMAIN db.paths # {}
    /\ db.head_oid # startDb.head_oid

\* store e holds everything store d holds: no commit, seen blob, blobs row or
\* path is lost, blobs rows are the same, no field of a paths row is smaller
Accumulated(d, e) ==
    /\ d.scanned_commits \subseteq e.scanned_commits
    /\ d.seen_blobs \subseteq e.seen_blobs
    /\ DOMAIN d.blobs \subseteq DOMAIN e.blobs
    /\ \A o \in DOMAIN d.blobs : e.blobs[o] = d.blobs[o]
    /\ DOMAIN d.paths \subseteq DOMAIN e.paths
    /\ \A p \in DOMAIN d.paths :
           /\ e.paths[p].cumulative_size >= d.paths[p].cumulative_size
           /\ e.paths[p].current_size >= d.paths[p].current_size
           /\ e.paths[p].blob_count >= d.paths[p].blob_count

\* the commits of the whole history a scan would still have to walk
LeftToScan(d) ==
    LET plan == plan_commits(collect_commits(Len(history)), d.scanned_commits)
    IN  {plan[k] : k \in 1..Len(plan)}

\* C12: every step of every scan, failed and killed ones included, leaves the
\* store with all the scanned commits, seen blobs, blobs rows and paths it had,
\* with blobs rows unmodified and no paths field decreased; the commits left to
\* scan only shrink.
C12_MonotonicAccumulation ==
    [][Accumulated(db, db') /\ LeftToScan(db') \subseteq LeftToScan(db)]_vars

\* apply_scan committed rows on top of an existing row of the same path
C12_Witness ==
    /\ pc = "set_head"
    /\ \E p \in DOMAIN startDb.paths : db.paths[p].blob_count > startDb.paths[p].blob_count
    /\ startDb.scanned_commits # db.scanned_commits
    /\ DOMAIN startDb.blobs # DOMAIN db.blobs

\* the positions of the records saved so far whose path is p
SavedAt(p) == {k \in 1..fed : input[k].path = p}

\* C13: after any sequence of save_blobs calls the paths table has a row for
\* exactly the paths of the saved records; each row holds the sum of their
\* cumulative_size, the sum of their current_size and their number, records
\* with cumulative_size 0 included; seen_blobs holds each saved oid once.
C13_AdditiveUpsert ==
    /\ DOMAIN store.paths = {input[k].path : k \in 1..fed}
    /\ \A p \in DOMAIN store.paths :
           /\ store.paths[p].cumulative_size =
                  SumOver(SavedAt(p), [k \in 1..fed |-> input[k].cumulative_size])
           /\ store.paths[p].current_size =
                  SumOver(SavedAt(p), [k \in 1..fed |-> input[k].current_size])
           /\ store.paths[p].blob_count = Cardinality(SavedAt(p))
    /\ store.seen_blobs = {input[k].oid : k \in 1..fed}
    /\ Cardinality(store.seen_blobs) <= fed

\* two records of one oid at one path were saved by two calls, the second with
\* cumulative_size 0
C13_Witness ==
    /\ fed = 2
    /\ ret = <<"save_blobs">>
    /\ DOMAIN before.paths # {}
    /\ input[1].path = input[2].path
    /\ input[1].oid = input[2].oid
    /\ input[1].cumulative_size > 0
    /\ input[2].cumulative_size = 0
    /\ store.paths[input[1].path].blob_count = 2

\* the permutations of 1..n
Perms(n) == {f \in [1..n -> 1..n] : \A i, j \in 1..n : f[i] = f[j] => i = j}

\* the records of q in the order f
Permuted(q, f) == [k \in 1..Len(q) |-> q[f[k]]]

\* C14: once all records of the input are saved, by whatever sequence of calls,
\* the paths table is the one that a single call saving any permutation of the
\* records in batches of any size leaves on an empty store.
C14_OrderAndChunkingImmaterial ==
    fed = Len(input) =>
        \A f \in Perms(Len(input)) :
            \A batch \in 1..Len(input) :
                save_blobs_chunks(EmptyDb, Permuted(input, f), batch).paths = store.paths

\* two different records of one path were saved by two calls
C14_Witness ==
    /\ fed = 2
    /\ Len(input) = 2
    /\ ret = <<"save_blobs">>
    /\ DOMAIN before.paths # {}
    /\ input[1].path = input[2].path
    /\ input[1].cumulative_size # input[2].cumulative_size
    /\ input[1].current_size # input[2].current_size

\* C15: after init_schema ran on a store whose schema_version is absent or not
\* the current constant, the four data tables are empty, head_oid is cleared,
\* schema_version is the current constant and load_tree gives a root without
\* children.
C15_SchemaGate ==
    (ret[1] = "init_schema" /\ before.schema_version # <<SCHEMA_VERSION>>) =>
        /\ DOMAIN store.paths = {}
        /\ DOMAIN store.blobs = {}
        /\ store.seen_blobs = {}
        /\ store.scanned_commits = {}
        /\ store.head_oid = <<>>
        /\ store.schema_version = <<SCHEMA_VERSION>>
        /\ DOMAIN load_tree(store).children = {}

\* init_schema ran on a store of another version that held rows and a cursor
C15_Witness ==
    /\ ret[1] = "init_schema"
    /\ before.schema_version = <<OtherVersion>>
    /\ DOMAIN before.paths # {}
    /\ DOMAIN before.blobs # {}
    /\ before.scanned_commits # {}
    /\ before.head_oid # <<>>

\* C16: init_schema returns TRUE exactly when the stored schema_version was
\* absent or different, and then the store is the rebuilt empty one; when it
\* returns FALSE the store is as it was; a second call right after any call
\* returns FALSE and changes nothing.
C16_InitSchemaFlag ==
    ret[1] = "init_schema" =>
        /\ ret[2] = (before.schema_version # <<SCHEMA_VERSION>>)
        /\ ret[2] => store = EmptyDb
        /\ ~ret[2] => store = before
        /\ init_schema(store) = [store |-> store, rebuilt |-> FALSE]

\* init_schema returned FALSE on a store that holds rows and a cursor
C16_Witness ==
    /\ ret = <<"init_schema", FALSE>>
    /\ DOMAIN store.paths # {}
    /\ DOMAIN store.blobs # {}
    /\ store.head_oid # <<>>

RECURSIVE NodesOf(_)

\* a node and all its descendants
NodesOf(node) ==
    {node} \cup UNION {NodesOf(node.children[k]) : k \in DOMAIN node.children}

\* the fields of node n are the sums, and the OR, over its children
RolledUp(n) ==
    LET K == DOMAIN n.children
    IN  /\ n.cumulative_size = SumOver(K, [k \in K |-> n.children[k].cumulative_size])
        /\ n.current_size = SumOver(K, [k \in K |-> n.children[k].current_size])
        /\ n.blob_count = SumOver(K, [k \in K |-> n.children[k].blob_count])
        /\ n.deleted_size = SumOver(K, [k \in K |-> n.children[k].deleted_size])
        /\ n.has_deleted_descendants =
               (\E k \in K : n.children[k].has_deleted_descendants)

\* C17: in the tree load_tree returns for any stored rows, every node that has
\* children holds the sums over its children of cumulative_size, current_size,
\* blob_count and deleted_size and the OR of has_deleted_descendants.
C17_RollUp ==
    ret[1] = "load_tree" =>
        \A n \in NodesOf(ret[2]) : DOMAIN n.children # {} => RolledUp(n)

\* what a walk of the leaves collects: (full path, cumulative_size,
\* current_size, blob_count) per call of the visitor
LeafRows(tree) ==
    LET v == visit_leaves(tree)
    IN  [k \in 1..Len(v) |->
            <<v[k][1], v[k][2].cumulative_size, v[k][2].current_size, v[k][2].blob_count>>]

\* the rows of the paths table in the same form
StoredRows(d) ==
    {<<p, d.paths[p].cumulative_size, d.paths[p].current_size, d.paths[p].blob_count>> :
        p \in DOMAIN d.paths}

\* C18: for any stored rows, the walk of the leaves of the tree load_tree
\* returns collects exactly the stored rows: each once, none missing, added or
\* changed.
C18_RoundTrip ==
    ret[1] = "load_tree" =>
        /\ SeqToSet(LeafRows(ret[2])) = StoredRows(store)
        /\ Len(LeafRows(ret[2])) = Cardinality(StoredRows(store))

\* positions in the leaf walk v of the leaves with no bytes in HEAD and bytes
\* in history
DeletedLeaves(v) ==
    {k \in 1..Len(v) : v[k][2].current_size = 0 /\ v[k][2].cumulative_size > 0}

\* C19: in the tree load_tree returns, a leaf has has_deleted_descendants
\* exactly when its current_size is 0 and its cumulative_size is positive, its
\* deleted_size is then its cumulative_size and otherwise 0, and the root's
\* deleted_size is the sum of cumulative_size over the deleted leaves.
C19_DeletedDetection ==
    ret[1] = "load_tree" =>
        /\ \A n \in NodesOf(ret[2]) :
               DOMAIN n.children = {} =>
                   /\ n.has_deleted_descendants =
                          (n.current_size = 0 /\ n.cumulative_size > 0)
                   /\ n.deleted_size =
                          IF n.current_size = 0 /\ n.cumulative_size > 0
                          THEN n.cumulative_size ELSE 0
        /\ LET v == visit_leaves(ret[2])
           IN  ret[2].deleted_size =
                   SumOver(DeletedLeaves(v), [k \in 1..Len(v) |-> v[k][2].cumulative_size])

\* the loaded tree has a deleted leaf and a leaf with bytes in HEAD
C19_Witness ==
    /\ ret[1] = "load_tree"
    /\ ret[2].deleted_size > 0
    /\ \E n \in NodesOf(ret[2]) :
           /\ DOMAIN n.children = {}
           /\ n.current_size > 0

\* the distinct blobs the commits up to the scanned HEAD hold at path p
VersionsAt(p) == {BlobAt(history[c], p) : c \in 1..head_hex} \ {Absent}

\* the scan that just returned ran on an empty store over commits that all
\* decode
OneScanOfEmptyStore ==
    /\ pc = "done"
    /\ DataOf(startDb) = DataOf(EmptyDb)
    /\ startDb.head_oid = <<>>
    /\ undecodable \cap (1..head_hex) = {}

RECURSIVE NodeAt(_, _)

\* the node of tree n reached by the path parts, or <<>> if there is none
NodeAt(n, parts) ==
    IF parts = <<>> THEN <<n>>
    ELSE IF parts[1] \in DOMAIN n.children
         THEN NodeAt(n.children[parts[1]], Tail(parts))
         ELSE <<>>

\* path p held a blob in a commit before the scanned HEAD and holds none in it
AddedThenRemoved(p) ==
    /\ BlobAt(history[head_hex], p) = Absent
    /\ \E c \in 1..(head_hex - 1) : BlobAt(history[c], p) # Absent

\* C21: in the tree a scan returns, a path that an earlier commit added and
\* that HEAD no longer has is a node with cumulative_size > 0 and
\* current_size = 0, and contains_deleted_files() is true at the root
\* (histories whose commits all decode).
C21_DeletedPathInTree ==
    (pc = "done" /\ undecodable \cap (1..head_hex) = {}) =>
        \A i \in 1..Len(AllPaths) :
            AddedThenRemoved(AllPaths[i]) =>
                LET at == NodeAt(result, Split(AllPaths[i], <<>>))
                IN  /\ at # <<>>
                    /\ at[1].cumulative_size > 0
                    /\ at[1].current_size = 0
                    /\ result.has_deleted_descendants

\* C22: get_top_blobs(n) returns min(n, number of blobs rows) different rows
\* of the table, in non-increasing order of size, and no row left out is
\* larger than a returned one; for the sizes 100, 500, 1000, 250 and n = 3
\* the sizes returned are 1000, 500, 250 in that order.
C22_TopBlobs ==
    ret[1] = "get_top_blobs" =>
        LET n == ret[2]
            q == ret[3]
            returned == {q[k].oid : k \in 1..Len(q)}
        IN  /\ Len(q) = Min(n, Cardinality(DOMAIN store.blobs))
            /\ Cardinality(returned) = Len(q)
            /\ \A k \in 1..Len(q) :
                   /\ q[k].oid \in DOMAIN store.blobs
                   /\ q[k] = LargeBlobInfoOf(store, q[k].oid)
            /\ \A i, j \in 1..Len(q) : i < j => q[i].size >= q[j].size
            /\ \A o \in DOMAIN store.blobs \ returned :
                   \A k \in 1..Len(q) : store.blobs[o].size <= q[k].size
            /\ (/\ n = 3
                /\ Cardinality(DOMAIN store.blobs) = 4
                /\ {store.blobs[o].size : o \in DOMAIN store.blobs} = {100, 250, 500, 1000})
               => [k \in 1..Len(q) |-> q[k].size] = <<1000, 500, 250>>

\* the query of the example: four rows of sizes 100, 500, 1000, 250, limit 3
C22_Witness ==
    /\ ret[1] = "get_top_blobs"
    /\ ret[2] = 3
    /\ [k \in 1..Len(input) |-> input[k].size] = <<100, 500, 1000, 250>>
    /\ fed = 4

\* the first call that interned bytes
FirstCall(bytes) ==
    CHOOSE i \in 1..Len(issued) :
        /\ issued[i][1] = bytes
        /\ \A j \in 1..(i - 1) : issued[j][1] # bytes

\* the different byte sequences interned before the first call for bytes
DistinctBefore(bytes) == {issued[j][1] : j \in 1..(FirstCall(bytes) - 1)}

\* C23: after any sequence of intern calls, equal bytes got equal ids,
\* different ids stand for different bytes, the k-th distinct byte sequence
\* got id k-1, get_bytes of a returned id gives the bytes interned, and an id
\* handed out earlier still gives its bytes after every later call.
C23_InternerInvariants ==
    /\ \A i, j \in 1..Len(issued) :
           /\ issued[i][1] = issued[j][1] => issued[i][2] = issued[j][2]
           /\ issued[i][2] # issued[j][2] =>
                  get_bytes(path_interner, issued[i][2]) # get_bytes(path_interner, issued[j][2])
    /\ \A i \in 1..Len(issued) :
           /\ issued[i][2] = Cardinality(DistinctBefore(issued[i][1]))
           /\ issued[i][2] + 1 \in DOMAIN path_interner
           /\ get_bytes(path_interner, issued[i][2]) = issued[i][1]
    /\ Len(path_interner) = Cardinality({issued[i][1] : i \in 1..Len(issued)})

\* the same bytes interned twice with other bytes in between and after
C23_Witness ==
    /\ Len(issued) = 4
    /\ issued[1][1] = issued[3][1]
    /\ issued[2][1] # issued[1][1]
    /\ issued[4][1] \notin {issued[1][1], issued[2][1]}

\* the entries of the index in ascending order of offset, as a set
NextOffsetAfter(off) ==
    LET later == {index[j].pack_offset : j \in 1..Len(index)} \cap ((off + 1)..(MaxOffset + 1))
    IN  IF later = {} THEN pack_end
        ELSE CHOOSE m \in later : \A l \in later : m <= l

RECURSIVE SumSizes(_, _)
SumSizes(f, S) ==
    IF S = {} THEN 0
    ELSE LET o == CHOOSE o \in S : TRUE IN f[o] + SumSizes(f, S \ {o})

\* C24: for a pack whose index entries have distinct offsets, the size
\* recorded for an entry is the next larger offset minus its own, pack_end
\* minus its own for the entry of the largest offset; every size is positive
\* and the sizes sum to pack_end minus the smallest offset, in whatever
\* order the index yields the entries.
C24_PackSizes ==
    sizes # <<>> =>
        /\ DOMAIN sizes[1] = {index[i].oid : i \in 1..Len(index)}
        /\ \A i \in 1..Len(index) :
               /\ sizes[1][index[i].oid] = NextOffsetAfter(index[i].pack_offset) - index[i].pack_offset
               /\ sizes[1][index[i].oid] > 0
        /\ index # <<>> =>
               SumSizes(sizes[1], DOMAIN sizes[1]) =
                   pack_end - (CHOOSE m \in {index[i].pack_offset : i \in 1..Len(index)} :
                                  \A i \in 1..Len(index) : m <= index[i].pack_offset)

\* three entries the index yields in an order that is not the order of offsets
C24_Witness ==
    /\ sizes # <<>>
    /\ Len(index) = 3
    /\ index[1].pack_offset > index[2].pack_offset
    /\ index[3].pack_offset > index[1].pack_offset

\* the <<path, blob>> pairs of the trees of commit c that decode
DecodedPairs(c) ==
    LET t == history[c]
    IN  (IF t[2] = Absent THEN {} ELSE {<<<<"a">>, t[2]>>})
        \cup (IF t[3][1] = "sub" THEN {<<<<"d", "/", "f">>, t[3][2]>>} ELSE {})
        \cup (IF t[4] = Absent THEN {} ELSE {<<<<"g">>, t[4]>>})

DecodedWalked == UNION {DecodedPairs(c) : c \in walked}

\* C25: size_of gives the packed size of an oid in the packed map, else the
\* size of its loose file when there is one, else 0; and a blob of size 0 seen
\* for the first time gets a row and a metadata row at its path.
C25_SizeOfNeverFails ==
    pc \in {"scan", "apply"} =>
        /\ \A k \in 1..Len(ctx.out.metadata) :
               LET m == ctx.out.metadata[k]
               IN  m.size = IF m.oid \in DOMAIN packed THEN packed[m.oid]
                            ELSE IF m.oid \in DOMAIN loose THEN loose[m.oid]
                            ELSE 0
        /\ \A pr \in DecodedWalked :
               (pr[2] \notin DOMAIN packed /\ pr[2] \notin DOMAIN loose) =>
                   /\ \E k \in 1..Len(ctx.out.blobs) :
                          /\ ctx.out.blobs[k].oid = pr[2]
                          /\ ctx.out.blobs[k].cumulative_size = 0
                          /\ get_bytes(ctx.interner, ctx.out.blobs[k].path_id) = pr[1]
                   /\ \E k \in 1..Len(ctx.out.metadata) :
                          /\ ctx.out.metadata[k].oid = pr[2]
                          /\ ctx.out.metadata[k].size = 0
                          /\ get_bytes(ctx.interner, ctx.out.metadata[k].path_id) = pr[1]

\* a blob without a size and a blob with a loose file were walked
C25_Witness ==
    /\ pc = "apply"
    /\ <<<<"a">>, "z">> \in DecodedWalked
    /\ <<<<"g">>, "y">> \in DecodedWalked
    /\ \E k \in 1..Len(ctx.out.blobs) : ctx.out.blobs[k].oid = "z"

\* C30: a tree that fails to decode ends its own scan_tree call only: no row
\* comes from it, the entries after it in the parent tree and the commits
\* after it are walked, each at its own path, and the path buffer is as the
\* caller left it.
C30_TreeDecodeFailure ==
    pc \in {"scan", "apply"} =>
        /\ \A k \in 1..Len(ctx.out.blobs) :
               <<get_bytes(ctx.interner, ctx.out.blobs[k].path_id), ctx.out.blobs[k].oid>>
                   \in DecodedWalked
        /\ \A pr \in DecodedWalked :
               /\ InternerHas(ctx.interner, pr[1])
               /\ <<intern_id(ctx.interner, pr[1]), pr[2]>> \in ctx.seen_path_blobs
               /\ pr[2] \in ctx.seen_blobs
               /\ \E k \in 1..Len(ctx.out.metadata) : ctx.out.metadata[k].oid = pr[2]
        /\ ctx.path = <<>>
        /\ idx = Cardinality(walked) + 1

\* the first commit has a tree that does not decode before the entry "g",
\* and the second commit brings a blob the first one did not have
C30_Witness ==
    /\ pc = "apply"
    /\ Len(history) = 2
    /\ find_tree_is_err(history[1][3])
    /\ history[1][4] = "y"
    /\ history[1][2] = Absent
    /\ history[2][2] = "x"
    /\ \E k \in 1..Len(ctx.out.blobs) :
           /\ ctx.out.blobs[k].oid = "y"
           /\ get_bytes(ctx.interner, ctx.out.blobs[k].path_id) = <<"g">>
    /\ \E k \in 1..Len(ctx.out.blobs) : ctx.out.blobs[k].oid = "x"

\* C27: after any sequence of scans the oids of the blobs table are the oids
\* of seen_blobs, and the cumulative_size of all paths rows sums to the size
\* of all blobs rows.
C27_EachBlobCountedOnce ==
    /\ DOMAIN db.blobs = db.seen_blobs
    /\ SumOver(DOMAIN db.paths, [p \in DOMAIN db.paths |-> db.paths[p].cumulative_size])
           = SumOver(DOMAIN db.blobs, [o \in DOMAIN db.blobs |-> db.blobs[o].size])

\* a scan of a second commit returned on a store an earlier scan had filled,
\* and the store holds both blobs at two paths
C27_Witness ==
    /\ pc = "done"
    /\ head_hex = 2
    /\ startDb.head_oid = <<1>>
    /\ startDb.seen_blobs # {}
    /\ db.seen_blobs = BlobOids
    /\ Cardinality(DOMAIN db.paths) = 2

\* C28: every BlobRow a scan emits, and every paths row of the store after
\* any sequence of scans, has current_size <= cumulative_size.
C28_CurrentWithinCumulative ==
    /\ pc \in {"scan", "apply"} =>
           \A k \in 1..Len(ctx.out.blobs) :
               ctx.out.blobs[k].current_size <= ctx.out.blobs[k].cumulative_size
    /\ \A p \in DOMAIN db.paths : db.paths[p].current_size <= db.paths[p].cumulative_size

\* C28, as the row rules of handle_blob and record_blob have it: a BlobRow
\* of a blob seen for the first time carries the blob's size as
\* cumulative_size and a current_size that is 0 or that size; a BlobRow of a
\* blob seen before carries cumulative_size 0 and the blob's size, above 0,
\* as current_size.
C28_RowSizes ==
    pc \in {"scan", "apply"} =>
        \A k \in 1..Len(ctx.out.blobs) :
            LET r == ctx.out.blobs[k]
            IN  \/ /\ r.cumulative_size = size_of(r.oid)
                   /\ r.current_size \in {0, r.cumulative_size}
                   /\ \E m \in 1..Len(ctx.out.metadata) :
                          /\ ctx.out.metadata[m].oid = r.oid
                          /\ ctx.out.metadata[m].path_id = r.path_id
                \/ /\ r.cumulative_size = 0
                   /\ r.current_size = size_of(r.oid)
                   /\ r.current_size > 0

\* a scan emitted a row of each kind
C28_Witness ==
    /\ pc = "apply"
    /\ \E k \in 1..Len(ctx.out.blobs) :
           ctx.out.blobs[k].cumulative_size > 0 /\ ctx.out.blobs[k].current_size = 0
    /\ \E k \in 1..Len(ctx.out.blobs) :
           ctx.out.blobs[k].cumulative_size = 0 /\ ctx.out.blobs[k].current_size > 0

\* C29: when init_schema was killed during a rebuild, the next init_schema
\* that returns gives true and leaves the four domain tables present and
\* empty and no head_oid; and whenever the stored schema_version is the
\* current one, the four domain tables exist.
C29_InterruptedRebuildRedone ==
    /\ (init_pc = "ready" /\ interrupted) =>
           /\ ret = <<"init_schema", TRUE>>
           /\ DomainTables \subseteq tables
           /\ store.paths = <<>>
           /\ store.seen_blobs = {}
           /\ store.scanned_commits = {}
           /\ store.blobs = <<>>
           /\ store.head_oid = <<>>
           /\ store.schema_version = <<SCHEMA_VERSION>>
    /\ (init_pc # "off" /\ store.schema_version = <<SCHEMA_VERSION>>) =>
           DomainTables \subseteq tables

\* init_schema returned on a store an earlier init_schema had left between
\* its drops: paths gone, blobs and the cursor still there
C29_Witness ==
    /\ init_pc = "ready"
    /\ interrupted
    /\ before.paths = <<>>
    /\ before.blobs # <<>>
    /\ before.head_oid # <<>>

\* C26, as stated: whenever head_oid is stored as h, every commit reachable
\* from h is in scanned_commits.
C26_CursorImpliesCoverage ==
    (init_pc # "off" /\ store.head_oid # <<>>) =>
        (1..store.head_oid[1]) \subseteq store.scanned_commits

\* C26, for the stores a scan can find: whenever the stored schema_version is
\* the current one and head_oid is stored as h, every commit reachable from h
\* is in scanned_commits, whatever scans and rebuilds were completed or
\* killed before.
C26_CursorOfCurrentSchema ==
    (init_pc # "off" /\ store.schema_version = <<SCHEMA_VERSION>> /\ store.head_oid # <<>>) =>
        (1..store.head_oid[1]) \subseteq store.scanned_commits

\* the store was opened with the cursor of an old version and scanned_commits
\* dropped by a rebuild that was killed; the rebuild was redone and a scan with
\* a delta without rows set the cursor
C26_Witness ==
    /\ init_pc = "ready"
    /\ ret = <<"set_metadata">>
    /\ input = <<>>
    /\ before.schema_version = <<OtherVersion>>
    /\ before.head_oid = <<1>>
    /\ before.scanned_commits = {}
    /\ store.schema_version = <<SCHEMA_VERSION>>
    /\ store.head_oid = <<1>>
    /\ store.scanned_commits = {1}

RECURSIVE ExpandEntries(_, _, _, _, _)
RECURSIVE ExpandTree(_, _, _)

\* a walk that decodes and expands every tree it is given, seen or not
ExpandTree(c, tree_oid, commit) ==
    LET c1 == [c EXCEPT !.interner = intern(c.interner, c.path),
                        !.seen_trees = @ \cup {<<tree_oid, intern_id(c.interner, c.path)>>}]
    IN  IF find_tree_is_err(tree_oid) THEN c1
        ELSE ExpandEntries(c1, find_tree(tree_oid), 1, Len(c1.path), commit)

ExpandEntries(c, entries, i, base_len, commit) ==
    IF i > Len(entries)
    THEN c
    ELSE LET entry == entries[i]
             pushed == [c EXCEPT !.path =
                           (IF @ # <<>> THEN Append(@, "/") ELSE @) \o entry.filename]
             visited == IF entry.mode = "blob" THEN handle_blob(pushed, entry.oid, commit)
                        ELSE IF entry.mode = "tree" THEN ExpandTree(pushed, entry.oid, commit)
                        ELSE pushed
         IN  ExpandEntries([visited EXCEPT !.path = SubSeq(@, 1, base_len)],
                           entries, i + 1, base_len, commit)

RECURSIVE ExpandCommits(_, _)
ExpandCommits(c, k) ==
    IF k >= idx THEN c
    ELSE ExpandCommits(ExpandTree([c EXCEPT !.path = <<>>],
                                  CommitInfoOf(commits_to_scan[k]).tree,
                                  CommitInfoOf(commits_to_scan[k])),
                       k + 1)

\* C31: a scan_tree call on a (tree_oid, path) pair already in seen_trees
\* leaves the whole context as it is, and the walk that skips such pairs
\* gives the delta and the dedup sets of a walk that expands every tree of
\* every commit.
C31_SeenTreesLoseNothing ==
    pc \in {"scan", "apply"} =>
        /\ \A pair \in ctx.seen_trees :
               LET at == [ctx EXCEPT !.path = get_bytes(ctx.interner, pair[2])]
               IN  scan_tree(at, pair[1], CommitInfoOf(head)) = at
        /\ LET all == ExpandCommits(NewCtx(snap.snapshot, snap.interner, db.seen_blobs), 1)
           IN  /\ ctx.out = all.out
               /\ ctx.seen_blobs = all.seen_blobs
               /\ ctx.seen_path_blobs = all.seen_path_blobs
               /\ ctx.seen_trees = all.seen_trees

\* two commits with the same sub tree at d, in different root trees, were walked
C31_Witness ==
    /\ pc = "apply"
    /\ Len(history) = 2
    /\ history[1] # history[2]
    /\ history[1][3] = <<"sub", "x">>
    /\ history[2][3] = <<"sub", "x">>
    /\ Len(ctx.out.blobs) >= 2

\* C32: the delta of one scan run never holds two BlobRows with the same
\* path_id and oid, however many of its commits hold that blob at that path.
C32_OneRowPerPathAndBlob ==
    pc \in {"scan", "apply"} =>
        \A j, k \in 1..Len(ctx.out.blobs) :
            (/\ ctx.out.blobs[j].path_id = ctx.out.blobs[k].path_id
             /\ ctx.out.blobs[j].oid = ctx.out.blobs[k].oid) => j = k

\* one run walked two commits, with different root trees, that hold the
\* same blob at "a", which is also HEAD's blob there
C32_Witness ==
    /\ pc = "apply"
    /\ walked = {1, 2}
    /\ history[1] # history[2]
    /\ history[1][2] = history[2][2]
    /\ history[1][2] # Absent
    /\ \E k \in 1..Len(ctx.out.blobs) :
           ctx.out.blobs[k].oid = history[1][2] /\ ctx.out.blobs[k].current_size > 0

\* position of commit c in the list s
PositionIn(s, c) == CHOOSE i \in 1..Len(s) : s[i] = c

\* C33: plan_commits returns exactly the commits of the oldest-first list
\* that are not in the stored scanned set, in the order of that list, each
\* once; it returns the empty list iff every collected commit is scanned.
C33_PlanIsTheUnscanned ==
    pc \in {"load_seen", "short_set_head"} =>
        LET all_commits == collect_commits(head_hex)
            listed == {all_commits[i] : i \in 1..Len(all_commits)}
        IN  /\ {commits_to_scan[i] : i \in 1..Len(commits_to_scan)}
                   = listed \ db.scanned_commits
            /\ \A i, j \in 1..Len(commits_to_scan) :
                   i < j => PositionIn(all_commits, commits_to_scan[i])
                                < PositionIn(all_commits, commits_to_scan[j])
            /\ (commits_to_scan = <<>>) <=> (listed \subseteq db.scanned_commits)
            /\ \A i \in 1..(Len(all_commits) - 1) : all_commits[i] < all_commits[i + 1]

\* the newer of two collected commits was scanned before, the older was not
C33_Witness ==
    /\ pc = "load_seen"
    /\ head_hex = 2
    /\ db.scanned_commits = {2}
    /\ commits_to_scan = <<1>>

\* the filenames from the root down to a blob of commit c, one list per blob
NamesDown(c) ==
    LET t == history[c]
    IN  (IF t[2] = Absent THEN {} ELSE {<<<<"a">>, t[2]>>})
        \cup (IF t[3][1] = "sub" THEN {<<<<"d", "f">>, t[3][2]>>} ELSE {})
        \cup (IF t[4] = Absent THEN {} ELSE {<<<<"g">>, t[4]>>})

RECURSIVE JoinSlash(_)
JoinSlash(names) ==
    IF Len(names) = 1 THEN <<names[1]>>
    ELSE <<names[1], "/">> \o JoinSlash(Tail(names))

\* C34: the path of every emitted row is the entry names from the root tree
\* down to the blob joined by "/", not empty, with no slash at either end;
\* and scan_tree, called at any depth on any path buffer, returns with the
\* buffer as it was on entry.
C34_PathsAndBuffer ==
    pc \in {"scan", "apply"} =>
        /\ \A k \in 1..Len(ctx.out.blobs) :
               LET bytes == get_bytes(ctx.interner, ctx.out.blobs[k].path_id)
               IN  /\ \E c \in walked : \E nb \in NamesDown(c) :
                          /\ nb[2] = ctx.out.blobs[k].oid
                          /\ bytes = JoinSlash(nb[1])
                   /\ bytes # <<>>
                   /\ bytes[1] # "/"
                   /\ bytes[Len(bytes)] # "/"
        /\ \A k \in 1..Len(ctx.out.metadata) :
               \E c \in walked : \E nb \in NamesDown(c) :
                   /\ nb[2] = ctx.out.metadata[k].oid
                   /\ get_bytes(ctx.interner, ctx.out.metadata[k].path_id) = JoinSlash(nb[1])
        /\ \A c \in 1..Len(history) :
               \A buffer \in {<<>>, <<"d">>, <<"q", "/", "d">>} :
                   LET fresh == [ctx EXCEPT !.seen_trees = {}, !.seen_path_blobs = {},
                                            !.path = buffer]
                   IN  /\ scan_tree(fresh, history[c], CommitInfoOf(c)).path = buffer
                       /\ history[c][3] # <<Absent>> =>
                              scan_tree(fresh, history[c][3], CommitInfoOf(c)).path = buffer

\* a blob two levels down, behind a blob at the root and before another one,
\* got its row
C34_Witness ==
    /\ pc = "apply"
    /\ \E c \in walked :
           /\ history[c][2] # Absent
           /\ history[c][3][1] = "sub"
           /\ history[c][4] # Absent
    /\ \E k \in 1..Len(ctx.out.blobs) :
           get_bytes(ctx.interner, ctx.out.blobs[k].path_id) = <<"g">>
    /\ \E k \in 1..Len(ctx.out.metadata) :
           get_bytes(ctx.interner, ctx.out.metadata[k].path_id) = <<"d", "/", "f">>

\* C35: a second compute_totals on the tree load_tree returned leaves every
\* node, with its sizes, counts and deleted flags, as it is.
C35_ComputeTotalsIdempotent ==
    ret[1] = "load_tree" => compute_totals(ret[2]) = ret[2]

\* this step handled intent i
Handled(i) ==
    /\ intent' = i
    /\ app' = handle_intent(app, i).app
    /\ action' = handle_intent(app, i).action

\* the directory a path lies in, as the names from the root down
ParentOf(path) ==
    LET parts == Split(path, <<>>)
    IN  SubSeq(parts, 1, Len(parts) - 1)

\* C36: Enter on a search result or on a large-blob entry leaves the tree view
\* in the parent directory of that entry's path (the root for a top-level
\* path), whatever directory it was in before, with selection index 0.
C36_NavigateToParent ==
    [][Handled(<<"Enter">>) =>
          LET path == IF app.view_mode = "Search"
                      THEN search_selected_path(app.search_vm)
                      ELSE IF app.view_mode = "LargeBlobs"
                      THEN blobs_selected_path(app.blobs_vm)
                      ELSE <<>>
          IN  path # <<>> =>
                  /\ app'.tree_vm.path_stack = ParentOf(path[1])
                  /\ app'.tree_vm.selected_index = 0
                  /\ app'.tree_vm = navigate_to_path(app.tree_vm, path[1])]_vars

\* a selection that is valid for a list of n items
InRange(selected, n) == IF n = 0 THEN selected = 0 ELSE selected < n

\* C37: in every state the handled intents lead to, the selected index of the
\* tree, extension and search views is below the length of the visible list
\* (0 for an empty list); entering a directory, going back, toggling the
\* deleted-only filter and changing the query set the selection to 0; go_back
\* at the root returns false and changes nothing.
C37_SelectionInRange ==
    /\ [](/\ InRange(app.tree_vm.selected_index, Len(visible_children(app.tree_vm)))
          /\ InRange(app.extension_vm.selected_index, Len(app.extension_vm.stats))
          /\ InRange(app.search_vm.selected_index, Len(app.search_vm.results)))
    /\ [][\A i \in Intents : Handled(i) =>
            LET tree == app.tree_vm
            IN  /\ (i[1] = "Enter" /\ app.view_mode = "Tree"
                        /\ app'.tree_vm.path_stack # tree.path_stack) =>
                       app'.tree_vm.selected_index = 0
                /\ (i[1] = "Back" /\ app.view_mode = "Tree" /\ tree.path_stack # <<>>) =>
                       /\ app'.tree_vm.selected_index = 0
                       /\ app'.tree_vm.path_stack =
                              SubSeq(tree.path_stack, 1, Len(tree.path_stack) - 1)
                /\ (i[1] = "Back" /\ app.view_mode = "Tree" /\ tree.path_stack = <<>>) =>
                       /\ app' = app
                       /\ go_back(tree) = [vm |-> tree, ret |-> FALSE]
                /\ (i[1] = "ToggleDeletedOnly" /\ app.view_mode = "Tree") =>
                       /\ app'.tree_vm.selected_index = 0
                       /\ app'.tree_vm.show_deleted_only = ~tree.show_deleted_only
                /\ (i[1] \in {"SearchChar", "SearchBackspace"}
                        /\ app.view_mode = "Search") =>
                       app'.search_vm.selected_index = 0]_vars

\* the deleted-only filter was switched on inside s, which has nothing
\* deleted: the list is empty
C37_Witness ==
    /\ intent = <<"ToggleDeletedOnly">>
    /\ app.view_mode = "Tree"
    /\ app.tree_vm.show_deleted_only
    /\ app.tree_vm.path_stack = <<<<"s">>>>
    /\ visible_children(app.tree_vm) = <<>>
    /\ app.tree_vm.selected_index = 0

\* C38: the view model starts in Tree; ShowTree, ShowExtensions,
\* ShowLargeBlobs and EnterSearch lead to Tree, ByExtension, LargeBlobs and
\* Search from any mode, EnterSearch with an empty query and no results; Quit
\* returns Quit and changes nothing, every other intent returns Redraw;
\* SearchChar and SearchBackspace change the query in Search mode only, Back
\* and ToggleDeletedOnly act in Tree mode only.
C38_ModeMachine ==
    /\ [](intent = <<>> => app.view_mode = "Tree")
    /\ [][\A i \in Intents : Handled(i) =>
            /\ i[1] = "Quit" => action' = "Quit" /\ app' = app
            /\ i[1] # "Quit" => action' = "Redraw"
            /\ i[1] = "ShowTree" => app'.view_mode = "Tree"
            /\ i[1] = "ShowExtensions" => app'.view_mode = "ByExtension"
            /\ i[1] = "ShowLargeBlobs" => app'.view_mode = "LargeBlobs"
            /\ i[1] = "EnterSearch" =>
                   /\ app'.view_mode = "Search"
                   /\ app'.search_vm.query = <<>>
                   /\ app'.search_vm.results = <<>>
            /\ i[1] = "SearchChar" =>
                   app'.search_vm.query =
                       IF app.view_mode = "Search"
                       THEN Append(app.search_vm.query, i[2])
                       ELSE app.search_vm.query
            /\ i[1] = "SearchBackspace" =>
                   app'.search_vm.query =
                       IF app.view_mode = "Search" /\ app.search_vm.query # <<>>
                       THEN SubSeq(app.search_vm.query, 1, Len(app.search_vm.query) - 1)
                       ELSE app.search_vm.query
            /\ (i[1] \in {"SearchChar", "SearchBackspace"}
                    /\ app.view_mode # "Search") => app' = app
            /\ (i[1] \in {"Back", "ToggleDeletedOnly"}
                    /\ app.view_mode # "Tree") => app' = app
            /\ (i[1] = "ToggleDeletedOnly" /\ app.view_mode = "Tree") =>
                   app'.tree_vm.show_deleted_only = ~app.tree_vm.show_deleted_only
            /\ (i[1] = "Back" /\ app.view_mode = "Tree") =>
                   app'.tree_vm = go_back(app.tree_vm).vm]_vars

\* search was entered again from the extension view, where a query typed
\* earlier was still in place
C38_Witness ==
    /\ intent = <<"EnterSearch">>
    /\ app.view_mode = "Search"
    /\ app.search_vm.query = <<>>
    /\ app.tree_vm.path_stack # <<>>
    /\ app.extension_vm.selected_index > 0

\* C39: on a list of n > 0 items with selection s < n, move_down selects
\* (s + 1) mod n and move_up selects (s - 1) mod n, so that move_up after
\* move_down is back at s; on an empty list both select 0 whatever was selected.
C39_Wraparound ==
    LET n == Len(test_list.items)
        s == list_before.selected_index
        t == test_list.selected_index
    IN  /\ (list_op = "move_down" /\ n > 0 /\ s < n) => t = (s + 1) % n
        /\ (list_op = "move_up" /\ n > 0 /\ s < n) => t = (s + n - 1) % n
        /\ (list_op # "none" /\ n = 0) => t = 0
        /\ (n > 0 /\ t < n) => move_up(n, move_down(n, t)) = t

\* move_down on the last of three items went to the first
C39_Witness ==
    /\ list_op = "move_down"
    /\ Len(test_list.items) = 3
    /\ list_before.selected_index = 2
    /\ test_list.selected_index = 0

====
